---- MODULE Spec2Model ----
(***************************************************************************)
(* Model of the inspection scheduler (Araiseimitsu/auto_arrenge):          *)
(*   src/src/inspection_scheduler.py  InspectionScheduler                  *)
(*   src/src/date_calculator.py       DateCalculator                       *)
(*   src/src/data_loader.py           DataLoader                           *)
(*                                                                         *)
(* Hours are integers (one unit = one hour).  A datetime is an integer     *)
(* number of hours since a Monday 00:00, so that day = t \div 24 and       *)
(* weekday = day % 7 with 0 = Monday, as datetime.weekday().               *)
(***************************************************************************)
EXTENDS Integers, Sequences, FiniteSets, TLC

VARIABLES
    base_date,            \* DateCalculator.base_date (hours since a Monday 00:00)
    shortage_data,        \* rows of the loaded shortage data, or None
    product_master,       \* rows of the process master, or None
    inspector_master,     \* sequence of inspector records, or None
    skill_master,         \* sequence of skill rows, or None
    scheduled_products,   \* sequence of scheduled task rows, or None
    pc,                   \* "idle", "plain" or "skill": which run is in its loop
    avg_working_hours,    \* local of the running assignment
    team,                 \* local new_product_team_members
    inspectors_status,    \* local list of {name, available_time}
    products,             \* local sorted task list with required headcount
    results,              \* local list of result rows
    last,                 \* inspectors_status before the last iteration (history)
    ret,                  \* the DataFrame the last finished run returned
    call                  \* last call of a pure function (for the function specs)

vars == <<base_date, shortage_data, product_master, inspector_master, skill_master,
          scheduled_products, pc, avg_working_hours, team, inspectors_status,
          products, results, last, ret, call>>

None == [kind |-> "none", rows |-> <<>>]
DF(rows) == [kind |-> "df", rows |-> rows]
NoCall == [op |-> "none"]

(***************************************************************************)
(* Bounds of the model                                                     *)
(***************************************************************************)
MaxInspectors == 3
MaxTasks == 3
\* the date functions: due dates on FirstDueDay .. FirstDueDay + DueDays - 1,
\* inspection hours up to MaxHours, deadlines up to day MaxDeadlineDay
DueDays == 14
MaxHours == 41
MaxDeadlineDay == 12
\* the reconciliation: at most MaxRawRows rows in the shortage sheet
MaxRawRows == 2

(* Program constants *)
DefaultWorkingHours == 8
MaxRequiredPeople == 50
HoursPerDay == 8
UrgentDays == 1
SoonDays == 3
WeekDays == 7
SecondsPerHour == 3600
\* DEFAULT_INSPECTION_TIME = 15 / 3600.0 hours, in seconds
DEFAULT_INSPECTION_TIME == 15
\* fillna(2.0) hours, in seconds
FillInspectionTime == 7200
NoDeadlineDays == 999
\* NaN / None in a numeric column
NaN == -1
NoDueDiff == 999

(***************************************************************************)
(* Arithmetic helpers                                                      *)
(***************************************************************************)
Max(a, b) == IF a >= b THEN a ELSE b
Min(a, b) == IF a <= b THEN a ELSE b

\* math.ceil(a / b) for b > 0
Ceil(a, b) == IF a % b = 0 THEN a \div b ELSE (a \div b) + 1

Range(s) == {s[i] : i \in 1..Len(s)}

SeqsUpTo(S, n) == UNION {[1..k -> S] : k \in 0..n}

\* df is None or df.empty
Missing(df) == df.kind = "none" \/ df.rows = <<>>

\* datetime.date(): the day number of a datetime
Date(t) == t \div 24

\* datetime.weekday(): 0 = Monday .. 6 = Sunday (hour 0 is a Monday 00:00)
Weekday(t) == Date(t) % 7

(***************************************************************************)
(* DateCalculator                                                          *)
(***************************************************************************)
\* the walk with every calendar day counted as a working day
RECURSIVE C6_Mutant_DeadlineWalk(_, _, _)
C6_Mutant_DeadlineWalk(deadline, remaining, per_day) ==
    IF remaining > 0
    THEN C6_Mutant_DeadlineWalk(deadline - 24, remaining - per_day, per_day)
    ELSE deadline

\* the loop of calculate_inspection_deadline; remaining_days = amount / per_day
\* is kept multiplied by per_day, so one working day takes per_day off
RECURSIVE DeadlineWalk(_, _, _)
DeadlineWalk(deadline, remaining, per_day) ==
    IF remaining > 0
    THEN LET d == deadline - 24
         IN  DeadlineWalk(d, IF Weekday(d) < 5 THEN remaining - per_day
                             ELSE remaining, per_day)
    ELSE deadline

\* calculate_inspection_deadline, inspection_hours in whole hours
CalculateInspectionDeadline(due_date, inspection_hours) ==
    DeadlineWalk(due_date, inspection_hours, HoursPerDay)

\* the level with the day boundaries taken one day early
C8_Mutant_CalculateUrgencyLevel(inspection_deadline, base) ==
    LET days_until_deadline == (inspection_deadline - base) \div 24
    IN  IF days_until_deadline < UrgentDays THEN 1
        ELSE IF days_until_deadline < SoonDays THEN 2
        ELSE IF days_until_deadline < WeekDays THEN 3
        ELSE 4

\* calculate_urgency_level; timedelta.days is the floor of the difference
CalculateUrgencyLevel(inspection_deadline, base) ==
    LET days_until_deadline == (inspection_deadline - base) \div 24
    IN  IF days_until_deadline <= UrgentDays THEN 1
        ELSE IF days_until_deadline <= SoonDays THEN 2
        ELSE IF days_until_deadline <= WeekDays THEN 3
        ELSE 4

\* the count with Saturdays and Sundays counted too
C7_Mutant_GetWorkdayCount(start_date, end_date) ==
    IF start_date >= end_date THEN 0
    ELSE ((end_date - start_date) + 23) \div 24

\* get_workday_count
RECURSIVE GetWorkdayCount(_, _)
GetWorkdayCount(start_date, end_date) ==
    IF start_date >= end_date THEN 0
    ELSE (IF Weekday(start_date) < 5 THEN 1 ELSE 0)
         + GetWorkdayCount(start_date + 24, end_date)

(***************************************************************************)
(* Working hours of the inspectors                                         *)
(***************************************************************************)
\* _calculate_working_hours, on whole-hour shift times
WorkingHours(start_time, end_time) ==
    IF start_time = end_time THEN 0
    ELSE IF end_time < start_time THEN (end_time + 24) - start_time
    ELSE end_time - start_time

RECURSIVE SumWorkingHours(_)
SumWorkingHours(rows) ==
    IF rows = <<>> THEN 0
    ELSE WorkingHours(Head(rows).start_time, Head(rows).end_time)
         + SumWorkingHours(Tail(rows))

\* avg_working_hours of a run: the mean shift length, 8.0 when no shift is
\* positive (the model's inspectors share one shift, so the mean is exact)
AvgWorkingHours(rows) ==
    IF \E i \in 1..Len(rows) :
          WorkingHours(rows[i].start_time, rows[i].end_time) > 0
    THEN SumWorkingHours(rows) \div Len(rows)
    ELSE DefaultWorkingHours

\* the budgets of the previous run kept when there was one
C12_Mutant_InitialStatus(rows, avg) ==
    IF inspectors_status = <<>>
    THEN [i \in 1..Len(rows) |-> [name |-> rows[i].name, available_time |-> avg]]
    ELSE inspectors_status

\* every inspector starting the run with two shifts of budget
C28_Mutant_InitialStatus(rows, avg) ==
    [i \in 1..Len(rows) |-> [name |-> rows[i].name, available_time |-> 2 * avg]]

\* inspectors_status at the start of a run
InitialStatus(rows, avg) ==
    [i \in 1..Len(rows) |-> [name |-> rows[i].name, available_time |-> avg]]

\* get_new_product_team_members
NewProductTeamMembers(im) ==
    IF Missing(im) THEN {}
    ELSE {im.rows[i].name : i \in {j \in 1..Len(im.rows) : im.rows[j].team}}

\* every part taken as registered
C4_Mutant_IsUnregisteredProduct(pm, product_code) == FALSE

\* is_unregistered_product
IsUnregisteredProduct(pm, product_code) ==
    \/ Missing(pm)
    \/ \A i \in 1..Len(pm.rows) : pm.rows[i].part # product_code

(***************************************************************************)
(* Required headcount and the assignment-pass order                        *)
(***************************************************************************)
\* calculate_required_people with one spare inspector on top of the quotient
C27_Mutant_CalculateRequiredPeople(total_inspection_time, due_date, today, avg) ==
    IF total_inspection_time <= 0 THEN 1
    ELSE Min(MaxRequiredPeople, Ceil(total_inspection_time, Max(avg, 1)) + 1)

\* calculate_required_people (the same nested function in both variants)
CalculateRequiredPeople(total_inspection_time, due_date, today, avg) ==
    IF total_inspection_time <= 0 THEN 1
    ELSE LET raw_days == IF due_date.kind = "str"
                         THEN Date(due_date.t) - today
                         ELSE 1
             days_until_due == IF raw_days <= 0 THEN 1 ELSE raw_days
             available_hours == days_until_due * Max(avg, 1)
             required_people == Ceil(total_inspection_time, available_hours)
         IN  IF required_people > MaxRequiredPeople THEN MaxRequiredPeople
             ELSE IF required_people < 1 THEN 1
             ELSE required_people

\* products['due_date_diff']
DueDateDiff(due_date, today) ==
    IF due_date.kind = "nat" THEN NoDueDiff ELSE Date(due_date.t) - today

\* row a is served strictly before row b: (due_date_diff asc, hours desc)
ProductBefore(a, b) ==
    \/ a.due_date_diff < b.due_date_diff
    \/ a.due_date_diff = b.due_date_diff /\ a.hours > b.hours

\* stable insertion of row x into the sorted list s
RECURSIVE InsertProduct(_, _)
InsertProduct(x, s) ==
    IF s = <<>> THEN <<x>>
    ELSE IF ProductBefore(x, Head(s)) THEN <<x>> \o s
    ELSE <<Head(s)>> \o InsertProduct(x, Tail(s))

\* the task list left in the order of the schedule
C11_Mutant_SortProducts(s) == s

\* products.sort_values(by=[due_date_diff, hours], ascending=[True, False])
RECURSIVE SortProducts(_)
SortProducts(s) ==
    IF s = <<>> THEN <<>>
    ELSE InsertProduct(s[Len(s)], SortProducts(SubSeq(s, 1, Len(s) - 1)))

\* the local products table of a run: required headcount added, then sorted
PrepareProducts(rows, today, avg) ==
    SortProducts([i \in 1..Len(rows) |->
        [part |-> rows[i].part, due |-> rows[i].due, hours |-> rows[i].hours,
         required |-> CalculateRequiredPeople(rows[i].hours, rows[i].due, today, avg),
         due_date_diff |-> DueDateDiff(rows[i].due, today)]])

(***************************************************************************)
(* The inspector time pool                                                 *)
(***************************************************************************)
\* stable insertion of status x into a list sorted by available_time desc
RECURSIVE InsertStatus(_, _)
InsertStatus(x, s) ==
    IF s = <<>> THEN <<x>>
    ELSE IF x.available_time > Head(s).available_time THEN <<x>> \o s
    ELSE <<Head(s)>> \o InsertStatus(x, Tail(s))

\* a sort call that leaves the list as it is
C2_Mutant_SortStatus(s) == s

\* inspectors_status.sort(key=available_time, reverse=True): a stable sort
RECURSIVE SortStatus(_)
SortStatus(s) ==
    IF s = <<>> THEN <<>>
    ELSE InsertStatus(s[Len(s)], SortStatus(SubSeq(s, 1, Len(s) - 1)))

\* the first k positions of the position set S, in list order
FirstK(S, k) == {i \in S : Cardinality({j \in S : j < i}) < k}

\* the positions of S in ascending order
RECURSIVE IdxSeq(_)
IdxSeq(S) ==
    IF S = {} THEN <<>>
    ELSE LET m == CHOOSE i \in S : \A j \in S : i <= j
         IN  <<m>> \o IdxSeq(S \ {m})

\* the amount given back to the inspectors at positions S
C21_Mutant_Charge(st, S, amount) ==
    [i \in 1..Len(st) |->
        IF i \in S THEN [st[i] EXCEPT !.available_time = @ + amount] ELSE st[i]]

\* inspector['available_time'] -= amount for the inspectors at positions S
Charge(st, S, amount) ==
    [i \in 1..Len(st) |->
        IF i \in S THEN [st[i] EXCEPT !.available_time = @ - amount] ELSE st[i]]

\* the member list of the inspectors at positions S, all with one tag
Members(st, S, tag) ==
    LET order == IdxSeq(S)
    IN  [k \in 1..Len(order) |-> [name |-> st[order[k]].name, tag |-> tag]]

\* required_by_volume = max(1, ceil(task_time / max(avg_working_hours, 0.1)))
RequiredByVolume(task_time, avg) == Max(1, Ceil(task_time, Max(avg, 1)))

(***************************************************************************)
(* assign_inspectors: one pass of the loop over the products               *)
(***************************************************************************)
\* the 不足人員 expression of the result row
PlainShortage(task_time, required, assigned_count, avg) ==
    Max((IF required > 1 THEN RequiredByVolume(task_time, avg) ELSE required)
        - assigned_count, 0)

\* PlainChosen without the check of a full free shift for multi-person tasks
C1_Mutant_PlainChosen(sorted, row, is_new, tm, avg) ==
    LET allowed(i) == (~is_new) \/ sorted[i].name \in tm
    IN  IF row.required = 1
        THEN FirstK({i \in 1..Len(sorted) :
                        allowed(i) /\ sorted[i].available_time >= row.hours}, 1)
        ELSE FirstK({i \in 1..Len(sorted) : allowed(i)},
                    Min(row.required, RequiredByVolume(row.hours, avg)))

\* the positions chosen for a task, in the list sorted for this task
PlainChosen(sorted, row, is_new, tm, avg) ==
    LET allowed(i) == (~is_new) \/ sorted[i].name \in tm
    IN  IF row.required = 1
        THEN FirstK({i \in 1..Len(sorted) :
                        allowed(i) /\ sorted[i].available_time >= row.hours}, 1)
        ELSE FirstK({i \in 1..Len(sorted) :
                        allowed(i) /\ sorted[i].available_time >= avg},
                    Min(row.required, RequiredByVolume(row.hours, avg)))

\* every member charged the hours of the task
C19_Mutant_PlainCharge(row, avg) == row.hours

\* the amount charged to each chosen inspector
PlainCharge(row, avg) == IF row.required = 1 THEN row.hours ELSE avg

\* one iteration that assigns whatever the hours of the task are
C20_Mutant_PlainTask(st, row, pm, tm, avg) ==
    LET is_new == IsUnregisteredProduct(pm, row.part)
        sorted == SortStatus(st)
        chosen == PlainChosen(sorted, row, is_new, tm, avg)
    IN  [status |-> Charge(sorted, chosen, PlainCharge(row, avg)),
         item |-> [part |-> row.part, due |-> row.due, hours |-> row.hours,
                   required |-> row.required,
                   assigned_count |-> Cardinality(chosen),
                   shortage |-> PlainShortage(row.hours, row.required,
                                              Cardinality(chosen), avg),
                   members |-> Members(sorted, chosen, "plain"),
                   is_new |-> is_new, skill_info |-> ""]]

\* one iteration: the new status list and the result row
PlainTask(st, row, pm, tm, avg) ==
    IF row.hours > 0
    THEN LET is_new == IsUnregisteredProduct(pm, row.part)
             sorted == SortStatus(st)
             chosen == PlainChosen(sorted, row, is_new, tm, avg)
         IN  [status |-> Charge(sorted, chosen, PlainCharge(row, avg)),
              item |-> [part |-> row.part, due |-> row.due, hours |-> row.hours,
                        required |-> row.required,
                        assigned_count |-> Cardinality(chosen),
                        shortage |-> PlainShortage(row.hours, row.required,
                                                   Cardinality(chosen), avg),
                        members |-> Members(sorted, chosen, "plain"),
                        is_new |-> is_new, skill_info |-> ""]]
    ELSE [status |-> st,
          item |-> [part |-> row.part, due |-> row.due, hours |-> row.hours,
                    required |-> row.required, assigned_count |-> 0,
                    shortage |-> PlainShortage(row.hours, row.required, 0, avg),
                    members |-> <<>>, is_new |-> FALSE, skill_info |-> ""]]

(***************************************************************************)
(* assign_inspectors_with_skill: one pass of the loop over the products    *)
(***************************************************************************)
\* the worker columns of the skill master (columns[2:]), inspector IDs
SkillColumns == <<"V1", "V2", "V3">>

\* the entries of one skill row with level k, in column order
LevelEntries(levels, k) ==
    LET cols == IdxSeq({c \in 1..Len(SkillColumns) : levels[c] = k})
    IN  [j \in 1..Len(cols) |-> [id |-> SkillColumns[cols[j]], skill_level |-> k]]

\* the skilled workers in column order, not ordered by level
C5_Mutant_SkilledInspectorsForProduct(sm, product_code) ==
    IF Missing(sm) THEN <<>>
    ELSE LET hits == {i \in 1..Len(sm.rows) : sm.rows[i].part = product_code}
         IN  IF hits = {} THEN <<>>
             ELSE LET row == sm.rows[CHOOSE i \in hits : \A j \in hits : i <= j]
                      cols == IdxSeq({c \in 1..Len(SkillColumns) : row.levels[c] \in 1..3})
                  IN  [j \in 1..Len(cols) |->
                          [id |-> SkillColumns[cols[j]], skill_level |-> row.levels[cols[j]]]]

\* _get_skilled_inspectors_for_product: the first row of the part, its
\* workers with level 1, 2 or 3, sorted by level (stable)
SkilledInspectorsForProduct(sm, product_code) ==
    IF Missing(sm) THEN <<>>
    ELSE LET hits == {i \in 1..Len(sm.rows) : sm.rows[i].part = product_code}
         IN  IF hits = {} THEN <<>>
             ELSE LET row == sm.rows[CHOOSE i \in hits : \A j \in hits : i <= j]
                  IN  LevelEntries(row.levels, 1) \o LevelEntries(row.levels, 2)
                      \o LevelEntries(row.levels, 3)

\* _get_inspector_name_by_id: "" when the ID is not in the inspector master
InspectorNameById(im, inspector_id) ==
    IF Missing(im) THEN ""
    ELSE LET hits == {i \in 1..Len(im.rows) : im.rows[i].id = inspector_id}
         IN  IF hits = {} THEN ""
             ELSE im.rows[CHOOSE i \in hits : \A j \in hits : i <= j].name

SkillTag(k) == IF k = 1 THEN "skill1" ELSE IF k = 2 THEN "skill2" ELSE "skill3"

\* the nested loops over skill levels and skilled inspectors
RECURSIVE SkillPhase(_, _, _, _, _, _)
SkillPhase(cands, st, members, required, amount, im) ==
    IF cands = <<>> \/ Len(members) >= required
    THEN [status |-> st, members |-> members]
    ELSE LET inspector_name == InspectorNameById(im, Head(cands).id)
             hits == {i \in 1..Len(st) : st[i].name = inspector_name}
             pos == FirstK(hits, 1)
         IN  IF inspector_name # "" /\ pos # {}
                /\ \A i \in pos : st[i].available_time >= amount
             THEN SkillPhase(Tail(cands), Charge(st, pos, amount),
                             members \o Members(st, pos, SkillTag(Head(cands).skill_level)),
                             required, amount, im)
             ELSE SkillPhase(Tail(cands), st, members, required, amount, im)

\* the general assignment: sort by available_time desc, take the first fits
GeneralPhase(st, members, required, amount) ==
    LET sorted == SortStatus(st)
        chosen == FirstK({i \in 1..Len(sorted) : sorted[i].available_time >= amount},
                         required - Len(members))
    IN  [status |-> Charge(sorted, chosen, amount),
         members |-> members \o Members(sorted, chosen, "general")]

\* members recorded without any hours charged
C30_Mutant_SkillCharge(row, avg) == 0

\* the amount one member of the task is charged
SkillCharge(row, avg) == IF row.required = 1 THEN row.hours ELSE avg

\* the general assignment taken without looking at the skilled workers
C18_Mutant_SkillAssign(st, row, skilled, avg, im) ==
    GeneralPhase(st, <<>>, row.required, SkillCharge(row, avg))

\* the assignment of one task with positive hours
SkillAssign(st, row, skilled, avg, im) ==
    IF skilled # <<>>
    THEN LET byskill == SkillPhase(skilled, st, <<>>, row.required,
                                   SkillCharge(row, avg), im)
         IN  IF Len(byskill.members) < row.required
             THEN GeneralPhase(byskill.status, byskill.members, row.required,
                               SkillCharge(row, avg))
             ELSE byskill
    ELSE GeneralPhase(st, <<>>, row.required, SkillCharge(row, avg))

\* one iteration: the new status list and the result row
SkillTask(st, row, sm, im, avg) ==
    IF row.hours > 0 /\ row.part # ""
    THEN LET skilled == SkilledInspectorsForProduct(sm, row.part)
             done == SkillAssign(st, row, skilled, avg, im)
         IN  [status |-> done.status,
              item |-> [part |-> row.part, due |-> row.due, hours |-> row.hours,
                        required |-> row.required,
                        assigned_count |-> Len(done.members),
                        shortage |-> Max(row.required - Len(done.members), 0),
                        members |-> done.members, is_new |-> FALSE,
                        skill_info |-> IF skilled # <<>> THEN "skilled" ELSE "none"]]
    ELSE [status |-> st,
          item |-> [part |-> row.part, due |-> row.due, hours |-> row.hours,
                    required |-> row.required, assigned_count |-> 0,
                    shortage |-> Max(row.required, 0),
                    members |-> <<>>, is_new |-> FALSE, skill_info |-> ""]]

(***************************************************************************)
(* Reconciliation of the shortage sheet with the process master.  The      *)
(* per-piece and the total inspection times are in seconds here.           *)
(***************************************************************************)
Abs(x) == IF x < 0 THEN -x ELSE x

NaT == [kind |-> "nat"]
Timestamp(t) == [kind |-> "ts", t |-> t]

\* part codes in string order
PartOrder == <<"N1", "P1">>
PartIndex(part) == CHOOSE i \in 1..Len(PartOrder) : PartOrder[i] = part

\* the rows of s whose index is in S, in the order of s
Pick(s, S) == [j \in 1..Cardinality(S) |-> s[IdxSeq(S)[j]]]

RemoveAt(s, i) == SubSeq(s, 1, i - 1) \o SubSeq(s, i + 1, Len(s))

RECURSIVE SumTimes(_)
SumTimes(rows) ==
    IF rows = <<>> THEN 0 ELSE Head(rows).inspection_time + SumTimes(Tail(rows))

\* ['検査時間'].mean() of a non-empty group of master rows
MeanTime(rows) == SumTimes(rows) \div Len(rows)

\* the keys of groupby(['納期', '品番']): sorted, rows without a due date dropped
RECURSIVE SortedKeys(_)
SortedKeys(keys) ==
    IF keys = {} THEN <<>>
    ELSE LET k == CHOOSE x \in keys :
                    \A y \in keys :
                       \/ x[1] < y[1]
                       \/ x[1] = y[1] /\ PartIndex(x[2]) <= PartIndex(y[2])
         IN  <<k>> \o SortedKeys(keys \ {k})

GroupKeys(rows) ==
    SortedKeys({<<rows[i].due.t, rows[i].part>> :
                   i \in {j \in 1..Len(rows) : rows[j].due.kind = "ts"}})

\* sort_values('ロット数量', ascending=False) of the lot quantities
RECURSIVE SortDescending(_)
SortDescending(q) ==
    IF q = <<>> THEN <<>>
    ELSE LET m == CHOOSE i \in 1..Len(q) :
                    \A j \in 1..Len(q) : q[i] > q[j] \/ (q[i] = q[j] /\ i <= j)
         IN  <<q[m]>> \o SortDescending(RemoveAt(q, m))

\* the loop over all_lots_sorted: lots are taken until the shortage is covered
RECURSIVE SelectLots(_, _, _, _)
SelectLots(lots, total_shortage, cumulative_qty, count) ==
    IF lots = <<>> \/ cumulative_qty >= total_shortage
    THEN [cumulative_qty |-> cumulative_qty, count |-> count]
    ELSE SelectLots(Tail(lots), total_shortage, cumulative_qty + Head(lots), count + 1)

\* the smallest 不足数 of a group
MinShortage(group) ==
    CHOOSE m \in {group[i].shortage : i \in 1..Len(group)} :
        \A i \in 1..Len(group) : m <= group[i].shortage

\* total_shortage: the absolute value of a negative actual_shortage
TotalShortage(actual_shortage) ==
    IF actual_shortage < 0 THEN Abs(actual_shortage) ELSE actual_shortage

\* the result row of one (納期, 品番) group
LotRequirement(key, group) ==
    LET total_shortage == TotalShortage(MinShortage(group))
        lots == SortDescending([i \in 1..Len(group) |-> group[i].lot_qty])
        sel == SelectLots(lots, total_shortage, 0, 0)
        picked == IF sel.count = 0
                  THEN [cumulative_qty |-> lots[1], count |-> 1]
                  ELSE sel
    IN  [due |-> Timestamp(key[1]), part |-> key[2],
         shortage |-> total_shortage,
         lot_count |-> picked.count,
         lot_total |-> Min(picked.cumulative_qty, total_shortage)]

\* _process_lot_requirements: one row per group, groups with shortage 0 skipped
RECURSIVE LotRequirements(_, _)
LotRequirements(keys, rows) ==
    IF keys = <<>> THEN <<>>
    ELSE LET key == Head(keys)
             group == Pick(rows, {i \in 1..Len(rows) :
                                     /\ rows[i].due.kind = "ts"
                                     /\ rows[i].due.t = key[1]
                                     /\ rows[i].part = key[2]})
         IN  (IF MinShortage(group) = 0 THEN <<>>
              ELSE <<LotRequirement(key, group)>>)
             \o LotRequirements(Tail(keys), rows)

ProcessLotRequirements(rows) == LotRequirements(GroupKeys(rows), rows)

\* pd.merge(shortage, master[['品番','工程番号','検査時間']], on='品番', how='left')
RECURSIVE MergeOnPart(_, _)
MergeOnPart(rows, pm) ==
    IF rows = <<>> THEN <<>>
    ELSE LET row == Head(rows)
             hits == Pick(pm.rows, {i \in 1..Len(pm.rows) : pm.rows[i].part = row.part})
         IN  (IF hits = <<>>
              THEN <<[due |-> row.due, part |-> row.part, shortage |-> row.shortage,
                      process_no |-> "", inspection_time |-> NaN]>>
              ELSE [j \in 1..Len(hits) |->
                       [due |-> row.due, part |-> row.part, shortage |-> row.shortage,
                        process_no |-> hits[j].process_no,
                        inspection_time |-> hits[j].inspection_time]])
             \o MergeOnPart(Tail(rows), pm)

\* get_process_and_inspection_time on a non-empty shortage table
GetProcessAndInspectionTime(rows, pm) ==
    LET merged_data == MergeOnPart(rows, pm)
        matched_rows == {i \in 1..Len(merged_data) :
                            /\ merged_data[i].process_no # ""
                            /\ merged_data[i].inspection_time # NaN}
    IN  IF matched_rows = {}
        THEN [i \in 1..Len(rows) |->
                 [due |-> rows[i].due, part |-> rows[i].part,
                  shortage |-> rows[i].shortage,
                  process_no |-> "", inspection_time |-> NaN]]
        ELSE [i \in 1..Len(merged_data) |->
                 [merged_data[i] EXCEPT !.inspection_time =
                     IF @ = NaN THEN DEFAULT_INSPECTION_TIME ELSE @]]

\* a null due date treated as due at the base date
C16_Mutant_WithDeadline(row, total) ==
    LET deadline == IF row.due.kind = "ts"
                    THEN Timestamp(DeadlineWalk(row.due.t, total,
                                                HoursPerDay * SecondsPerHour))
                    ELSE NaT
    IN  [deadline |-> deadline,
         level |-> IF deadline.kind = "ts"
                   THEN CalculateUrgencyLevel(deadline.t, base_date) ELSE 1,
         days |-> IF deadline.kind = "ts"
                  THEN (deadline.t - base_date) \div 24 ELSE 0]

\* the deadline, urgency level and days columns of a row with its total time
WithDeadline(row, total) ==
    LET deadline == IF row.due.kind = "ts"
                    THEN Timestamp(DeadlineWalk(row.due.t, total,
                                                HoursPerDay * SecondsPerHour))
                    ELSE NaT
    IN  [deadline |-> deadline,
         level |-> IF deadline.kind = "ts"
                   THEN CalculateUrgencyLevel(deadline.t, base_date) ELSE 4,
         days |-> IF deadline.kind = "ts"
                  THEN (deadline.t - base_date) \div 24 ELSE NoDeadlineDays]

\* one row of _calculate_basic_schedule
BasicScheduleRow(row) ==
    LET inspection_time == IF row.inspection_time = NaN THEN FillInspectionTime
                           ELSE row.inspection_time
        produced_quantity == Abs(row.shortage)
        total == produced_quantity * inspection_time
        d == WithDeadline(row, total)
    IN  [due |-> row.due, part |-> row.part, shortage |-> row.shortage,
         process_no |-> row.process_no, inspection_time |-> inspection_time,
         produced_quantity |-> produced_quantity, total |-> total,
         deadline |-> d.deadline, level |-> d.level, days |-> d.days]

\* _calculate_basic_schedule
CalculateBasicSchedule(enriched) ==
    [i \in 1..Len(enriched) |-> BasicScheduleRow(enriched[i])]

\* row a sorts strictly before row b: (緊急度レベル, 期限までの日数, 総検査時間 desc)
ScheduleBefore(a, b) ==
    \/ a.level < b.level
    \/ a.level = b.level /\ a.days < b.days
    \/ a.level = b.level /\ a.days = b.days /\ a.total > b.total

RECURSIVE InsertSchedule(_, _)
InsertSchedule(x, s) ==
    IF s = <<>> THEN <<x>>
    ELSE IF ScheduleBefore(x, Head(s)) THEN <<x>> \o s
    ELSE <<Head(s)>> \o InsertSchedule(x, Tail(s))

\* the valid rows returned in the order of the cached schedule
C17_Mutant_SortSchedule(s) == s

\* valid_products.sort_values([...], ascending=[True, True, False])
RECURSIVE SortSchedule(_)
SortSchedule(s) ==
    IF s = <<>> THEN <<>>
    ELSE InsertSchedule(s[Len(s)], SortSchedule(SubSeq(s, 1, Len(s) - 1)))

\* row a has the larger absolute shortage
RECURSIVE InsertByAbs(_, _)
InsertByAbs(x, s) ==
    IF s = <<>> THEN <<x>>
    ELSE IF Abs(x.shortage) > Abs(Head(s).shortage) THEN <<x>> \o s
    ELSE <<Head(s)>> \o InsertByAbs(x, Tail(s))

\* sort_values('__不足数_abs', ascending=False), ties in input order
RECURSIVE SortByAbs(_)
SortByAbs(s) ==
    IF s = <<>> THEN <<>>
    ELSE InsertByAbs(s[Len(s)], SortByAbs(SubSeq(s, 1, Len(s) - 1)))

\* drop_duplicates(subset=['品番', '納期', '工程番号'], keep='first')
DropDuplicates(s) ==
    Pick(s, {i \in 1..Len(s) :
                \A j \in 1..(i - 1) :
                   ~(/\ s[j].part = s[i].part
                     /\ s[j].due = s[i].due
                     /\ s[j].process = s[i].process)})

\* the inspection time add_time_calculations finds for a part and its current
\* process number: the master row of that process, else the mean of the
\* part's master rows with a blank process number, else the part's row of
\* process 0, else 2.0 hours
LookupInspectionTime(pm, part, process) ==
    LET of_part == {i \in 1..Len(pm.rows) : pm.rows[i].part = part}
        joined == Pick(pm.rows, {i \in of_part : /\ process # ""
                                                 /\ pm.rows[i].process_no = process})
        blank == Pick(pm.rows, {i \in of_part : pm.rows[i].process_no = ""})
        zero == Pick(pm.rows, {i \in of_part : pm.rows[i].process_no = "0"})
    IN  IF joined # <<>> THEN MeanTime(joined)
        ELSE IF blank # <<>> THEN MeanTime(blank)
        ELSE IF zero # <<>> THEN zero[1].inspection_time
        ELSE FillInspectionTime

\* normalize_process_no on a master row: a blank process number is undefined
NormalizeProcessNo(process_no) == IF process_no = "" THEN "unset" ELSE process_no

\* the sorted keys of groupby(['品番', '工程番号標準'])
ProcessOrder == <<"0", "1", "unset">>

\* process_list_map[part]: the standard process numbers of the part's master
\* rows in group order; the empty sequence is the '' of a part without rows
ProcessListMap(pm, part) ==
    LET numbers == {NormalizeProcessNo(pm.rows[i].process_no) :
                       i \in {j \in 1..Len(pm.rows) : pm.rows[j].part = part}}
    IN  Pick(ProcessOrder, {k \in 1..Len(ProcessOrder) : ProcessOrder[k] \in numbers})

\* 工程番号一覧: the list of the map, an empty list replaced by 工程番号
ProcessNumberList(pm, part, process_no) ==
    IF ProcessListMap(pm, part) = <<>> THEN <<process_no>>
    ELSE ProcessListMap(pm, part)

\* the quantity taken from the shortage whatever a known lot total says
C9_Mutant_Quantity(row, has_lot) == row.shortage

\* the quantity add_time_calculations multiplies by the inspection time
Quantity(row, has_lot) == IF has_lot THEN row.lot_total ELSE Abs(row.shortage)

\* one row of add_time_calculations
TimeCalculationRow(row, has_process, has_lot, pm) ==
    LET process == IF has_process THEN row.process ELSE ""
        inspection_time == LookupInspectionTime(pm, row.part, process)
        quantity == Quantity(row, has_lot)
        total == quantity * inspection_time
        d == WithDeadline(row, total)
    IN  [due |-> row.due, part |-> row.part, shortage |-> row.shortage,
         process_no |-> IF process = "" THEN "unregistered" ELSE process,
         process_list |-> ProcessNumberList(pm, row.part,
                             IF process = "" THEN "unregistered" ELSE process),
         inspection_time |-> inspection_time,
         produced_quantity |-> quantity, total |-> total,
         deadline |-> d.deadline, level |-> d.level, days |-> d.days]

\* add_time_calculations on a table with the columns 品番, 納期 and 不足数
AddTimeCalculations(rows, has_process, has_lot, pm) ==
    IF rows = <<>> \/ Missing(pm) THEN <<>>
    ELSE LET kept == IF has_process THEN DropDuplicates(SortByAbs(rows)) ELSE rows
         IN  [i \in 1..Len(kept) |-> TimeCalculationRow(kept[i], has_process, has_lot, pm)]

(***************************************************************************)
(* The data a scheduler can hold                                           *)
(***************************************************************************)
InspectorIds == <<"V1", "V2", "V3", "V4">>
InspectorNames == <<"A", "B", "C", "D">>

\* whole-hour shifts (start, end): a day shift of 8 h and a night shift of 6 h
Shifts == {<<9, 17>>, <<22, 4>>}

\* an inspector master of n inspectors sharing one shift
InspectorRows(n, stars, shift) ==
    [i \in 1..n |-> [id |-> InspectorIds[i], name |-> InspectorNames[i],
                     team |-> InspectorNames[i] \in stars,
                     start_time |-> shift[1], end_time |-> shift[2]]]

NamesUpTo(n) == {InspectorNames[i] : i \in 1..n}

\* part codes: P1 is in the process master, N1 is not
PartCodes == {"P1", "N1"}

\* per-piece inspection time of the master rows, in seconds
MasterInspectionTime == 3600

\* process masters: part P1 with a blank process number, process 0 or process 1
ProductMasters ==
    {DF(<<[part |-> "P1", process_no |-> p, inspection_time |-> MasterInspectionTime]>>) :
        p \in {"", "0", "1"}}

\* the (due date, part) keys of the shortage rows in the order the loader
\* emits them: groupby(['納期', '品番']) yields one row per key, sorted by key,
\* and drops the rows without a due date
ShortageKeys ==
    <<[due |-> [kind |-> "ts", t |-> 24], part |-> "N1"],
      [due |-> [kind |-> "ts", t |-> 24], part |-> "P1"],
      [due |-> [kind |-> "ts", t |-> 96], part |-> "N1"],
      [due |-> [kind |-> "ts", t |-> 96], part |-> "P1"]>>

\* total inspection hours of the tasks
TaskHours == {0, 3, 12, 408}

\* the task row of key number k with the given hours
TaskRow(k, hours) ==
    [part |-> ShortageKeys[k].part, due |-> ShortageKeys[k].due, hours |-> hours]

\* the schedules: at most MaxTasks keys, in loader order, any hours each
Schedules ==
    UNION {{[j \in 1..Cardinality(S) |-> TaskRow(IdxSeq(S)[j], h[IdxSeq(S)[j]])] :
               h \in [S -> TaskHours]} :
           S \in {T \in SUBSET (1..Len(ShortageKeys)) : Cardinality(T) <= MaxTasks}}

SkillLevels == 0..3

\* the skill masters: one row for part P1 with any level per worker column
SkillMasters ==
    {DF(<<[part |-> "P1", levels |-> lv]>>) : lv \in [1..Len(SkillColumns) -> SkillLevels]}

(***************************************************************************)
(* State machine of the assignment runs                                    *)
(***************************************************************************)
Init ==
    /\ base_date = 34
    /\ product_master = DF(<<[part |-> "P1", process_no |-> "1",
                               inspection_time |-> MasterInspectionTime]>>)
    /\ \/ /\ skill_master = None
          /\ \E n \in 1..MaxInspectors, shift \in Shifts :
                \E stars \in SUBSET NamesUpTo(n) :
                   inspector_master = DF(InspectorRows(n, stars, shift))
       \/ /\ skill_master \in SkillMasters
          /\ inspector_master = DF(InspectorRows(MaxInspectors, {}, <<9, 17>>))
    /\ \E rows \in Schedules :
          /\ scheduled_products = DF(rows)
          /\ shortage_data = DF([j \in 1..Len(rows) |->
                                   [part |-> rows[j].part, due |-> rows[j].due]])
    /\ pc = "idle"
    /\ avg_working_hours = 0
    /\ team = {}
    /\ inspectors_status = <<>>
    /\ products = <<>>
    /\ results = <<>>
    /\ last = <<>>
    /\ ret = None
    /\ call = NoCall

data == <<base_date, shortage_data, product_master, inspector_master, skill_master,
          scheduled_products>>

\* the common preamble of both variants: budgets, required headcount, order
StartRun(variant) ==
    LET avg == AvgWorkingHours(inspector_master.rows)
    IN  /\ pc' = variant
        /\ avg_working_hours' = avg
        /\ inspectors_status' = InitialStatus(inspector_master.rows, avg)
        /\ products' = PrepareProducts(scheduled_products.rows, Date(base_date), avg)
        /\ results' = <<>>
        /\ last' = <<>>

\* assign_inspectors called without a schedule or without inspectors
AssignInspectorsEmpty ==
    /\ pc = "idle"
    /\ Missing(scheduled_products) \/ Missing(inspector_master)
    /\ ret' = DF(<<>>)
    /\ UNCHANGED <<data, pc, avg_working_hours, team, inspectors_status,
                   products, results, last, call>>

\* assign_inspectors up to the loop
AssignInspectorsStart ==
    /\ pc = "idle"
    /\ ~Missing(scheduled_products)
    /\ ~Missing(inspector_master)
    /\ StartRun("plain")
    /\ team' = NewProductTeamMembers(inspector_master)
    /\ UNCHANGED <<data, ret, call>>

\* one iteration of the loop of assign_inspectors
AssignInspectorsTask ==
    /\ pc = "plain"
    /\ Len(results) < Len(products)
    /\ LET step == PlainTask(inspectors_status, products[Len(results) + 1],
                             product_master, team, avg_working_hours)
       IN  /\ inspectors_status' = step.status
           /\ results' = Append(results, step.item)
    /\ last' = inspectors_status
    /\ UNCHANGED <<data, pc, avg_working_hours, team, products, ret, call>>

\* assign_inspectors returns the result rows
AssignInspectorsReturn ==
    /\ pc = "plain"
    /\ Len(results) = Len(products)
    /\ pc' = "idle"
    /\ ret' = DF(results)
    /\ UNCHANGED <<data, avg_working_hours, team, inspectors_status, products,
                   results, last, call>>

\* assign_inspectors_with_skill called with a dataset missing
AssignWithSkillEmpty ==
    /\ pc = "idle"
    /\ \/ Missing(scheduled_products)
       \/ Missing(inspector_master)
       \/ Missing(skill_master)
    /\ ret' = DF(<<>>)
    /\ UNCHANGED <<data, pc, avg_working_hours, team, inspectors_status,
                   products, results, last, call>>

\* assign_inspectors_with_skill up to the loop
AssignWithSkillStart ==
    /\ pc = "idle"
    /\ ~Missing(scheduled_products)
    /\ ~Missing(inspector_master)
    /\ ~Missing(skill_master)
    /\ StartRun("skill")
    /\ team' = {}
    /\ UNCHANGED <<data, ret, call>>

\* one iteration of the loop of assign_inspectors_with_skill
AssignWithSkillTask ==
    /\ pc = "skill"
    /\ Len(results) < Len(products)
    /\ LET step == SkillTask(inspectors_status, products[Len(results) + 1],
                             skill_master, inspector_master, avg_working_hours)
       IN  /\ inspectors_status' = step.status
           /\ results' = Append(results, step.item)
    /\ last' = inspectors_status
    /\ UNCHANGED <<data, pc, avg_working_hours, team, products, ret, call>>

\* assign_inspectors_with_skill returns the result rows
AssignWithSkillReturn ==
    /\ pc = "skill"
    /\ Len(results) = Len(products)
    /\ pc' = "idle"
    /\ ret' = DF(results)
    /\ UNCHANGED <<data, avg_working_hours, team, inspectors_status, products,
                   results, last, call>>

Next ==
    \/ AssignInspectorsEmpty
    \/ AssignInspectorsStart
    \/ AssignInspectorsTask
    \/ AssignInspectorsReturn
    \/ AssignWithSkillEmpty
    \/ AssignWithSkillStart
    \/ AssignWithSkillTask
    \/ AssignWithSkillReturn

Spec == Init /\ [][Next]_vars

(***************************************************************************)
(* The date functions of DateCalculator, each behaviour making one call    *)
(***************************************************************************)
FirstDueDay == 14

\* due dates: two weeks of days, at midnight and at 15:00
DueDateInputs == {24 * d + h : d \in FirstDueDay..(FirstDueDay + DueDays - 1), h \in {0, 15}}

\* inspection hours, some of them not positive
HourInputs == -3..MaxHours

\* inspection deadlines around the base dates, at several times of the day
DeadlineInputs == {24 * d + h : d \in 0..MaxDeadlineDay, h \in {0, 9, 10, 11}}

\* base dates: Tuesday 10:00 and Saturday 10:00
BaseDates == {34, 130}

InitDate ==
    /\ base_date \in BaseDates
    /\ shortage_data = None
    /\ product_master = None
    /\ inspector_master = None
    /\ skill_master = None
    /\ scheduled_products = None
    /\ pc = "idle"
    /\ avg_working_hours = 0
    /\ team = {}
    /\ inspectors_status = <<>>
    /\ products = <<>>
    /\ results = <<>>
    /\ last = <<>>
    /\ ret = None
    /\ call = NoCall

engine == <<pc, avg_working_hours, team, inspectors_status, products, results,
            last, ret>>

CallCalculateInspectionDeadline ==
    /\ call = NoCall
    /\ \E due_date \in DueDateInputs, inspection_hours \in HourInputs :
          call' = [op |-> "calculate_inspection_deadline",
                   due_date |-> due_date,
                   inspection_hours |-> inspection_hours,
                   result |-> CalculateInspectionDeadline(due_date, inspection_hours)]
    /\ UNCHANGED <<data, engine>>

CallCalculateUrgencyLevel ==
    /\ call = NoCall
    /\ \E inspection_deadline \in DeadlineInputs :
          call' = [op |-> "calculate_urgency_level",
                   inspection_deadline |-> inspection_deadline,
                   result |-> CalculateUrgencyLevel(inspection_deadline, base_date)]
    /\ UNCHANGED <<data, engine>>

CallGetWorkdayCount ==
    /\ call = NoCall
    /\ \E start_date \in DeadlineInputs, end_date \in DeadlineInputs :
          call' = [op |-> "get_workday_count",
                   start_date |-> start_date,
                   end_date |-> end_date,
                   result |-> GetWorkdayCount(start_date, end_date)]
    /\ UNCHANGED <<data, engine>>

NextDate ==
    \/ CallCalculateInspectionDeadline
    \/ CallCalculateUrgencyLevel
    \/ CallGetWorkdayCount

SpecDate == InitDate /\ [][NextDate]_vars

(***************************************************************************)
(* Loading and reconciling: load_data, calculate_schedules and             *)
(* add_time_calculations.  A behaviour loads one shortage sheet.           *)
(***************************************************************************)
RawDues == {Timestamp(192), NaT}
ShortageQtys == {-6, 0, 12}
LotQtys == {5, 20}
RawProcesses == {"1"}

\* the rows of a shortage sheet: 納期, 品番, 不足数, ロット数量, and the current
\* process number a caller of add_time_calculations may supply
RawRows ==
    [due : RawDues, part : PartCodes, shortage : ShortageQtys,
     lot_qty : LotQtys, process : RawProcesses]

RawShortages == UNION {[1..k -> RawRows] : k \in 1..MaxRawRows}

InitRecon ==
    /\ base_date = 34
    /\ shortage_data = None
    /\ product_master = None
    /\ inspector_master = None
    /\ skill_master = None
    /\ scheduled_products = None
    /\ pc = "idle"
    /\ avg_working_hours = 0
    /\ team = {}
    /\ inspectors_status = <<>>
    /\ products = <<>>
    /\ results = <<>>
    /\ last = <<>>
    /\ ret = None
    /\ call = NoCall

\* what the loader finds on disk: no shortage file, or a sheet of rows
SheetFiles ==
    {[present |-> FALSE, rows |-> <<>>]}
        \cup {[present |-> TRUE, rows |-> raw] : raw \in RawShortages}

\* the shortage table the loader builds from what it found
LoadShortageData(sheet) ==
    IF sheet.present THEN DF(ProcessLotRequirements(sheet.rows)) ELSE None

\* the part codes of a table
PartsOf(df) == {df.rows[i].part : i \in 1..Len(df.rows)}

\* validate_data: the shortage table and the master share a part code
ValidateData(sd, pm) ==
    IF sd.kind = "none" \/ pm.kind = "none" THEN FALSE
    ELSE IF sd.rows = <<>> THEN TRUE
    ELSE IF pm.rows = <<>> THEN FALSE
    ELSE PartsOf(sd) \cap PartsOf(pm) # {}

\* the value load_data returns for the tables it stored
LoadDataResult(sd, pm) ==
    IF sd.kind = "none" \/ pm.kind = "none" THEN FALSE
    ELSE ValidateData(sd, pm)

\* load_data: the loader reads the sheet and the masters
LoadData ==
    /\ call = NoCall
    /\ \E sheet \in SheetFiles, pm \in ProductMasters \cup {None} :
          LET sd == LoadShortageData(sheet)
          IN  /\ shortage_data' = sd
              /\ product_master' = pm
              /\ call' = [op |-> "load_data", raw |-> sheet.rows,
                          ok |-> LoadDataResult(sd, pm)]
    /\ inspector_master' = DF(InspectorRows(MaxInspectors, {}, <<9, 17>>))
    /\ skill_master' = None
    /\ UNCHANGED <<base_date, scheduled_products, engine>>

\* calculate_schedules caching an empty schedule when a dataset is absent
C14_Mutant_CalculateSchedules ==
    /\ pc = "idle"
    /\ IF \/ shortage_data.kind = "none"
          \/ product_master.kind = "none"
          \/ shortage_data.rows = <<>>
       THEN /\ ret' = DF(<<>>)
            /\ scheduled_products' = DF(<<>>)
       ELSE LET basic == CalculateBasicSchedule(
                             GetProcessAndInspectionTime(shortage_data.rows,
                                                         product_master))
            IN  /\ scheduled_products' = DF(basic)
                /\ ret' = DF(SortSchedule(
                                Pick(basic, {i \in 1..Len(basic) :
                                                basic[i].deadline.kind = "ts"})))
    /\ UNCHANGED <<base_date, shortage_data, product_master, inspector_master,
                   skill_master, pc, avg_working_hours, team, inspectors_status,
                   products, results, last, call>>

\* calculate_schedules
CalculateSchedules ==
    /\ pc = "idle"
    /\ IF \/ shortage_data.kind = "none"
          \/ product_master.kind = "none"
          \/ shortage_data.rows = <<>>
       THEN /\ ret' = DF(<<>>)
            /\ UNCHANGED scheduled_products
       ELSE LET basic == CalculateBasicSchedule(
                             GetProcessAndInspectionTime(shortage_data.rows,
                                                         product_master))
            IN  /\ scheduled_products' = DF(basic)
                /\ ret' = DF(SortSchedule(
                                Pick(basic, {i \in 1..Len(basic) :
                                                basic[i].deadline.kind = "ts"})))
    /\ UNCHANGED <<base_date, shortage_data, product_master, inspector_master,
                   skill_master, pc, avg_working_hours, team, inspectors_status,
                   products, results, last, call>>

\* add_time_calculations on the loaded lot table or on the rows of the sheet
CallAddTimeCalculations ==
    /\ call.op = "load_data"
    /\ ~Missing(product_master)
    /\ \E has_lot \in BOOLEAN, has_process \in BOOLEAN :
          /\ has_lot => ~has_process
          /\ call' = [op |-> "add_time_calculations",
                      raw |-> call.raw,
                      has_lot |-> has_lot,
                      has_process |-> has_process,
                      rows |-> AddTimeCalculations(
                                   IF has_lot THEN shortage_data.rows ELSE call.raw,
                                   has_process, has_lot, product_master)]
    /\ UNCHANGED <<data, engine>>

\* filter_urgent_products: the rows due to start within max_days
FilterUrgentProducts(rows, max_days) ==
    Pick(rows, {i \in 1..Len(rows) : rows[i].days <= max_days})

\* run_full_analysis: load_data, then calculate_schedules and the urgent list
\* unless load_data failed
RunFullAnalysis ==
    /\ call = NoCall
    /\ pc = "idle"
    /\ \E sheet \in SheetFiles, pm \in ProductMasters \cup {None} :
          LET sd == LoadShortageData(sheet)
              ok == LoadDataResult(sd, pm)
              basic == CalculateBasicSchedule(
                           GetProcessAndInspectionTime(sd.rows, pm))
          IN  /\ shortage_data' = sd
              /\ product_master' = pm
              /\ call' = [op |-> "run_full_analysis", raw |-> sheet.rows,
                          ok |-> ok]
              /\ IF ~ok
                 THEN /\ ret' = DF(<<>>)
                      /\ UNCHANGED scheduled_products
                 ELSE IF sd.rows = <<>>
                 THEN /\ ret' = DF(<<>>)
                      /\ UNCHANGED scheduled_products
                 ELSE /\ scheduled_products' = DF(basic)
                      /\ ret' = DF(FilterUrgentProducts(basic, SoonDays))
    /\ inspector_master' = DF(InspectorRows(MaxInspectors, {}, <<9, 17>>))
    /\ skill_master' = None
    /\ UNCHANGED <<base_date, pc, avg_working_hours, team, inspectors_status,
                   products, results, last>>

\* the columns generate_priority_list selects from a scheduled row
PriorityColumns(row) ==
    [part |-> row.part, due |-> row.due, shortage |-> row.shortage,
     inspection_time |-> row.inspection_time, total |-> row.total,
     deadline |-> row.deadline, days |-> row.days, level |-> row.level]

\* priority_list.head(limit); a limit of 0 or None is no limit
Head_(rows, limit) ==
    IF limit = 0 THEN rows ELSE SubSeq(rows, 1, Min(limit, Len(rows)))

\* generate_priority_list(limit) after an analysis
GeneratePriorityList ==
    /\ call.op = "run_full_analysis"
    /\ pc = "idle"
    /\ \E limit \in 0..MaxRawRows :
          call' = [op |-> "generate_priority_list", raw |-> call.raw,
                   ok |-> call.ok, limit |-> limit,
                   rows |-> IF Missing(scheduled_products) THEN <<>>
                            ELSE Head_([i \in 1..Len(scheduled_products.rows) |->
                                          PriorityColumns(scheduled_products.rows[i])],
                                       limit)]
    /\ UNCHANGED <<data, engine>>

NextRecon ==
    \/ LoadData
    \/ CalculateSchedules
    \/ CallAddTimeCalculations
    \/ RunFullAnalysis
    \/ GeneratePriorityList
    \/ AssignInspectorsEmpty
    \/ AssignWithSkillEmpty

SpecRecon == InitRecon /\ [][NextRecon]_vars

(***************************************************************************)
(* Loading again: load_data called a second time on the same scheduler,    *)
(* with the shortage file gone or empty, followed by calculate_schedules   *)
(* and assign_inspectors.                                                  *)
(***************************************************************************)
\* what the loader finds the second time: no shortage file, or an empty one
ReloadFiles ==
    {[present |-> FALSE, rows |-> <<>>], [present |-> TRUE, rows |-> <<>>]}

\* load_data called again after a load
ReloadData ==
    /\ call.op = "load_data"
    /\ "again" \notin DOMAIN call
    /\ pc = "idle"
    /\ \E sheet \in ReloadFiles, pm \in {product_master, None} :
          LET sd == LoadShortageData(sheet)
          IN  /\ shortage_data' = sd
              /\ product_master' = pm
              /\ call' = [op |-> "load_data", raw |-> sheet.rows,
                          ok |-> LoadDataResult(sd, pm), again |-> TRUE]
    /\ inspector_master' = DF(InspectorRows(MaxInspectors, {}, <<9, 17>>))
    /\ skill_master' = None
    /\ UNCHANGED <<base_date, scheduled_products, engine>>

\* the cached schedule as the assignment loop reads it: part, due date and
\* the total inspection time, which the loop counts in whole hours
ScheduledTasks(rows) ==
    [i \in 1..Len(rows) |->
        [part |-> rows[i].part, due |-> rows[i].due,
         hours |-> Ceil(rows[i].total, SecondsPerHour)]]

\* assign_inspectors up to the loop, on the schedule calculate_schedules cached
AssignInspectorsCached ==
    /\ pc = "idle"
    /\ ~Missing(scheduled_products)
    /\ ~Missing(inspector_master)
    /\ LET avg == AvgWorkingHours(inspector_master.rows)
       IN  /\ pc' = "plain"
           /\ avg_working_hours' = avg
           /\ inspectors_status' = InitialStatus(inspector_master.rows, avg)
           /\ products' = PrepareProducts(ScheduledTasks(scheduled_products.rows),
                                          Date(base_date), avg)
           /\ results' = <<>>
           /\ last' = <<>>
    /\ team' = NewProductTeamMembers(inspector_master)
    /\ UNCHANGED <<data, ret, call>>

NextReload ==
    \/ LoadData
    \/ ReloadData
    \/ CalculateSchedules
    \/ AssignInspectorsEmpty
    \/ AssignInspectorsCached
    \/ AssignInspectorsTask
    \/ AssignInspectorsReturn

SpecReload == InitRecon /\ [][NextReload]_vars

(***************************************************************************)
(* The unit of the master's inspection times: load_product_master.  A      *)
(* behaviour loads one master.  Raw times are counted in halves of the     *)
(* sheet's unit, normalised times in 1/7200 of an hour, so that every      *)
(* threshold and every conversion is an integer.                           *)
(***************************************************************************)
MaxSample == 2

\* the raw 検査時間 values of a sheet, in halves: -1, 0, 0.5, 1.5, 5, 50, 700
SampleValues == {-2, 0, 1, 3, 10, 100, 1400}

Samples == UNION {[1..k -> SampleValues] : k \in 1..MaxSample}

\* the config value product_master_time_unit; "none" is an absent key
ForcedUnits == {"none", "seconds", "minutes", "hours", "excel", "bogus"}

\* the process numbers given to the rows of the sheet
SampleProcesses == <<"0", "1", "2", "3">>

\* s_pos = s[s >= 0], in ascending order
RECURSIVE Reverse(_)
Reverse(q) == IF q = <<>> THEN <<>> ELSE Append(Reverse(Tail(q)), Head(q))

PositiveSorted(sample) ==
    Reverse(SortDescending(Pick(sample, {i \in 1..Len(sample) : sample[i] >= 0})))

\* s_pos.max()
MaxValue(sp) == sp[Len(sp)]

\* 20 times s_pos.quantile(0.95), linear interpolation between the ranks
Quantile95x20(sp) ==
    LET lo == (19 * (Len(sp) - 1)) \div 20
        fr == 19 * (Len(sp) - 1) - 20 * lo
    IN  20 * sp[lo + 1] + (IF fr = 0 THEN 0 ELSE fr * (sp[lo + 2] - sp[lo + 1]))

\* 2 times s_pos.median()
Median2(sp) ==
    IF Len(sp) % 2 = 1 THEN 2 * sp[(Len(sp) + 1) \div 2]
    ELSE sp[Len(sp) \div 2] + sp[Len(sp) \div 2 + 1]

\* the thresholds of the rules, on values counted in halves
ExcelMax == 3
MinutesQ95 == 200
MinutesMedian == 120
HoursQ95 == 2
HoursMedian == 1
FallbackHoursQ95 == 48
FallbackHoursMedian == 16
FallbackMinutesQ95 == 1200

\* the unit of the automatic rules (no forced unit)
AutoUnit(sample) ==
    LET sp == PositiveSorted(sample)
    IN  IF sp = <<>> THEN "seconds_to_hours"
        ELSE IF MaxValue(sp) <= ExcelMax THEN "excel_day_to_hours"
        ELSE IF Quantile95x20(sp) <= 20 * MinutesQ95 /\ Median2(sp) <= 2 * MinutesMedian
        THEN "minutes_to_hours"
        ELSE IF Quantile95x20(sp) <= 20 * HoursQ95 /\ Median2(sp) <= 2 * HoursMedian
        THEN "hours"
        ELSE "seconds_to_hours"

\* the unit of the rules run for an unrecognized forced unit
FallbackUnit(sample) ==
    LET sp == PositiveSorted(sample)
    IN  IF sp = <<>> THEN "seconds_to_hours_fallback"
        ELSE IF MaxValue(sp) <= ExcelMax THEN "excel_day_to_hours_fallback"
        ELSE IF /\ Quantile95x20(sp) <= 20 * FallbackHoursQ95
                /\ Median2(sp) <= 2 * FallbackHoursMedian
        THEN "hours_fallback"
        ELSE IF Quantile95x20(sp) <= 20 * FallbackMinutesQ95
        THEN "minutes_to_hours_fallback"
        ELSE "seconds_to_hours_fallback"

\* the unit the loader logs for a sample and a forced unit
DetectUnit(sample, forced_unit) ==
    IF forced_unit = "seconds" THEN "seconds_forced"
    ELSE IF forced_unit = "minutes" THEN "minutes_forced"
    ELSE IF forced_unit = "hours" THEN "hours_forced"
    ELSE IF forced_unit = "excel" THEN "excel_day_to_hours_forced"
    ELSE IF forced_unit # "none" THEN FallbackUnit(sample)
    ELSE AutoUnit(sample)

\* 1/7200 hours per half of the sheet's unit: * 24, identity, / 60, / 3600
ExcelFactor == 86400
HoursFactor == 3600
MinutesFactor == 60
SecondsFactor == 1

\* the conversion that goes with a unit
Factor(unit) ==
    IF unit \in {"excel_day_to_hours", "excel_day_to_hours_fallback",
                 "excel_day_to_hours_forced"} THEN ExcelFactor
    ELSE IF unit \in {"hours", "hours_fallback", "hours_forced"} THEN HoursFactor
    ELSE IF unit \in {"minutes_to_hours", "minutes_to_hours_fallback",
                      "minutes_forced"} THEN MinutesFactor
    ELSE SecondsFactor

\* the normalised 検査時間 column
NormalizeTimes(sample, forced_unit) ==
    [i \in 1..Len(sample) |-> sample[i] * Factor(DetectUnit(sample, forced_unit))]

\* load_product_master on a sheet of the part P1
LoadProductMaster ==
    /\ call = NoCall
    /\ \E sample \in Samples, forced_unit \in ForcedUnits :
          /\ call' = [op |-> "load_product_master", sample |-> sample,
                      forced_unit |-> forced_unit,
                      unit |-> DetectUnit(sample, forced_unit),
                      times |-> NormalizeTimes(sample, forced_unit)]
          /\ product_master' =
                DF([i \in 1..Len(sample) |->
                       [part |-> "P1", process_no |-> SampleProcesses[i],
                        inspection_time |-> NormalizeTimes(sample, forced_unit)[i]]])
    /\ UNCHANGED <<base_date, shortage_data, inspector_master, skill_master,
                   scheduled_products, engine>>

NextUnit == LoadProductMaster

SpecUnit == InitRecon /\ [][NextUnit]_vars

(***************************************************************************)
(* Helpers of the properties                                               *)
(***************************************************************************)
\* the remaining hours of the inspector called name in the status list st
TimeOf(st, name) ==
    st[CHOOSE i \in 1..Len(st) : st[i].name = name].available_time

\* position of the inspector in the inspector master (the original order)
OriginalIndex(name) ==
    CHOOSE i \in 1..Len(inspector_master.rows) : inspector_master.rows[i].name = name

\* position of the inspector in the status list st
PositionIn(st, name) == CHOOSE i \in 1..Len(st) : st[i].name = name

StatusNames(st) == {st[i].name : i \in 1..Len(st)}

\* the part codes of the process master
MasterPartCodes == {product_master.rows[i].part : i \in 1..Len(product_master.rows)}

MemberNames(item) == {item.members[i].name : i \in 1..Len(item.members)}

\* a task step has just run: its product row and its result row
Stepped == pc \in {"plain", "skill"} /\ Len(results) >= 1
LastRow == products[Len(results)]
LastItem == results[Len(results)]

(***************************************************************************)
(* C1: in both variants, after every task step of a run every inspector's  *)
(* remaining hours are >= 0 (and never above the initial shift average),   *)
(* so no inspector is charged more than the initial budget.                *)
(***************************************************************************)
C1_RemainingNonNegative ==
    \A i \in 1..Len(inspectors_status) :
        /\ inspectors_status[i].available_time >= 0
        /\ inspectors_status[i].available_time <= avg_working_hours

\* a skill run in which one inspector is used up and another partly used
C1_Witness ==
    /\ pc = "skill"
    /\ Len(results) >= 2
    /\ \E i, j \in 1..Len(inspectors_status) :
          /\ inspectors_status[i].available_time = 0
          /\ inspectors_status[j].available_time > 0
          /\ inspectors_status[j].available_time < avg_working_hours

(***************************************************************************)
(* C2: a single-person task of a registered part in assign_inspectors gets *)
(* exactly one inspector whenever some inspector has enough remaining      *)
(* hours: the one with the largest remaining hours; exactly total_hours is *)
(* deducted from that inspector and every other inspector is unchanged.    *)
(* This holds for every task of a run.  Ties are broken by the order of    *)
(* the status list before the task (the order the earlier sorts left).     *)
(***************************************************************************)
\* the last step was a single-person task of a registered part that fits
C2_SingleRegisteredStep ==
    /\ pc = "plain"
    /\ Len(results) >= 1
    /\ LastRow.required = 1
    /\ LastRow.hours > 0
    /\ LastRow.part \in MasterPartCodes
    /\ \E i \in 1..Len(last) : last[i].available_time >= LastRow.hours

\* one member, the largest budget, the exact charge, the others untouched
C2_SingleCharge ==
    /\ Len(LastItem.members) = 1
    /\ LastItem.assigned_count = 1
    /\ LET c == LastItem.members[1].name
       IN  /\ \A n \in StatusNames(last) : TimeOf(last, n) <= TimeOf(last, c)
           /\ TimeOf(inspectors_status, c) = TimeOf(last, c) - LastRow.hours
           /\ \A n \in StatusNames(last) \ {c} :
                 TimeOf(inspectors_status, n) = TimeOf(last, n)

\* the amended claim: ties go to the first tied inspector of the current list
C2_SingleLargestCurrentOrder ==
    C2_SingleRegisteredStep =>
        /\ C2_SingleCharge
        /\ LET c == LastItem.members[1].name
           IN  \A n \in StatusNames(last) :
                  TimeOf(last, n) = TimeOf(last, c)
                     => PositionIn(last, c) <= PositionIn(last, n)

\* the claim as stated: ties go to the first tied inspector of the master
C2_SingleLargestOriginalOrder ==
    C2_SingleRegisteredStep =>
        /\ C2_SingleCharge
        /\ LET c == LastItem.members[1].name
           IN  \A n \in StatusNames(last) :
                  TimeOf(last, n) = TimeOf(last, c)
                     => OriginalIndex(c) <= OriginalIndex(n)

\* a later task of the run decided between two inspectors with equal budgets
C2_Witness ==
    /\ C2_SingleRegisteredStep
    /\ Len(results) >= 2
    /\ \E n \in StatusNames(last) \ {LastItem.members[1].name} :
          TimeOf(last, n) = TimeOf(last, LastItem.members[1].name)

(***************************************************************************)
(* C3: in every result row shortage_headcount equals                       *)
(* max(effective_required - assigned_headcount, 0) with effective_required *)
(* = min(required_headcount, max(1, ceil(total_hours / shift average))).   *)
(***************************************************************************)
C3_ShortageIsEffectiveMinusAssigned ==
    \A k \in 1..Len(results) :
        results[k].shortage =
            Max(Min(results[k].required,
                    Max(1, Ceil(results[k].hours, avg_working_hours)))
                - results[k].assigned_count, 0)

(***************************************************************************)
(* C4: in assign_inspectors every inspector assigned to a new-product task *)
(* (part absent from the process master) is a member of the new-product    *)
(* team; with an empty team nobody is assigned, with a team short of       *)
(* capacity the task stays short, and no inspector outside the team is     *)
(* charged by that task.                                                   *)
(***************************************************************************)
\* hours one member of the last task must have free
C4_Need == IF LastRow.required = 1 THEN LastRow.hours ELSE avg_working_hours

\* headcount the last task tries to fill
C4_Wanted ==
    IF LastRow.required = 1 THEN 1
    ELSE Min(LastRow.required, Max(1, Ceil(LastRow.hours, avg_working_hours)))

C4_NewStep ==
    /\ pc = "plain"
    /\ Len(results) >= 1
    /\ LastRow.hours > 0
    /\ LastRow.part \notin MasterPartCodes

C4_NewProductTeamOnly ==
    /\ pc = "plain" =>
          \A k \in 1..Len(results) :
              (results[k].hours > 0 /\ results[k].part \notin MasterPartCodes) =>
                  /\ MemberNames(results[k]) \subseteq team
                  /\ team = {} => results[k].assigned_count = 0
    /\ C4_NewStep =>
          /\ LastItem.assigned_count =
                Min(C4_Wanted, Cardinality({n \in team \cap StatusNames(last) :
                                               TimeOf(last, n) >= C4_Need}))
          /\ \A n \in StatusNames(last) \ team :
                TimeOf(inspectors_status, n) = TimeOf(last, n)
          /\ \A n \in StatusNames(last) \ MemberNames(LastItem) :
                TimeOf(inspectors_status, n) = TimeOf(last, n)

\* a new-product task left short although an inspector outside the team is free
C4_Witness ==
    /\ C4_NewStep
    /\ team # {}
    /\ LastItem.assigned_count < C4_Wanted
    /\ LastItem.shortage > 0
    /\ \E n \in StatusNames(last) \ team : TimeOf(last, n) >= C4_Need

(***************************************************************************)
(* C5: in assign_inspectors_with_skill a worker with skill level k for the *)
(* task's part is assigned only after every worker with a lower-numbered   *)
(* level for that part who has sufficient remaining time has been assigned *)
(* to the task, whatever the workers' remaining hours are.                 *)
(***************************************************************************)
\* the skill value of the inspector for the part in the skill master (0: none)
C5_LevelOf(name, part) ==
    LET rows == {i \in 1..Len(skill_master.rows) : skill_master.rows[i].part = part}
        cols == {c \in 1..Len(SkillColumns) :
                    \E i \in 1..Len(inspector_master.rows) :
                       /\ inspector_master.rows[i].name = name
                       /\ inspector_master.rows[i].id = SkillColumns[c]}
    IN  IF rows = {} \/ cols = {} THEN 0
        ELSE skill_master.rows[CHOOSE i \in rows : \A j \in rows : i <= j]
                .levels[CHOOSE c \in cols : TRUE]

\* position of the inspector in the member list of the last task (0: absent)
C5_MemberPos(name) ==
    IF name \in MemberNames(LastItem)
    THEN CHOOSE k \in 1..Len(LastItem.members) : LastItem.members[k].name = name
    ELSE 0

C5_SkillStep == pc = "skill" /\ Len(results) >= 1 /\ LastRow.hours > 0

C5_SkillLevelOrder ==
    C5_SkillStep =>
        \A a, b \in StatusNames(last) :
            (/\ C5_LevelOf(b, LastRow.part) > 0
             /\ C5_LevelOf(a, LastRow.part) > 0
             /\ C5_LevelOf(a, LastRow.part) < C5_LevelOf(b, LastRow.part)
             /\ b \in MemberNames(LastItem)
             /\ TimeOf(last, a) >= C4_Need)
            => /\ a \in MemberNames(LastItem)
               /\ C5_MemberPos(a) < C5_MemberPos(b)

\* levels [1,1,2] for [A,B,C]: a level-1 worker is taken although a worker
\* with a higher level number has more hours left
C5_Witness ==
    /\ C5_SkillStep
    /\ C5_LevelOf("A", LastRow.part) = 1
    /\ C5_LevelOf("B", LastRow.part) = 1
    /\ C5_LevelOf("C", LastRow.part) = 2
    /\ "C" \notin MemberNames(LastItem)
    /\ \E m \in MemberNames(LastItem) : TimeOf(last, m) < TimeOf(last, "C")

(***************************************************************************)
(* C6: for any due date and any inspection hours with 0 < hours <= 8,      *)
(* calculate_inspection_deadline returns the nearest Monday-Friday date    *)
(* strictly before the due date (same time of day): Thursday for a Friday  *)
(* due date, the Friday of the week before for a Monday due date.          *)
(***************************************************************************)
C6_DeadlineCall == call.op = "calculate_inspection_deadline"

C6_NearestWeekdayBefore ==
    (C6_DeadlineCall /\ call.inspection_hours > 0
                     /\ call.inspection_hours <= HoursPerDay) =>
        /\ call.result < call.due_date
        /\ (call.due_date - call.result) % 24 = 0
        /\ Weekday(call.result) \in 0..4
        /\ \A k \in 1..7 :
              (call.due_date - 24 * k > call.result)
                 => Weekday(call.due_date - 24 * k) \in {5, 6}
        /\ Weekday(call.due_date) = 4 => call.result = call.due_date - 24
        /\ Weekday(call.due_date) = 0 => call.result = call.due_date - 72

\* a Monday due date with a full day of inspection: the Friday before
C6_Witness ==
    /\ C6_DeadlineCall
    /\ call.inspection_hours = HoursPerDay
    /\ Weekday(call.due_date) = 0
    /\ Weekday(call.result) = 4
    /\ call.result = call.due_date - 72

(***************************************************************************)
(* C7: for any due date and hours > 0 the deadline is a Monday-Friday date *)
(* and the number of Monday-Friday days d with deadline <= d < due date is *)
(* ceil(hours / 8), which is also get_workday_count(deadline, due date);   *)
(* for hours <= 0 the deadline is the due date.                            *)
(***************************************************************************)
\* the days of the walk back from the due date that are not before the deadline
C7_DaysBack == {k \in 1..(3 * MaxHours) : call.due_date - 24 * k >= call.result}

C7_WorkdaysEqualCeil ==
    C6_DeadlineCall =>
        /\ call.inspection_hours <= 0 => call.result = call.due_date
        /\ call.inspection_hours > 0 =>
              /\ Weekday(call.result) \in 0..4
              /\ Cardinality({k \in C7_DaysBack : Weekday(call.due_date - 24 * k) < 5})
                    = Ceil(call.inspection_hours, 8)
              /\ GetWorkdayCount(call.result, call.due_date)
                    = Ceil(call.inspection_hours, 8)

\* 17 hours before a Tuesday afternoon: three working days, the weekend skipped
C7_Witness ==
    /\ C6_DeadlineCall
    /\ call.inspection_hours = 17
    /\ Weekday(call.due_date) = 1
    /\ call.due_date % 24 = 15
    /\ call.result = call.due_date - 5 * 24
    /\ GetWorkdayCount(call.result, call.due_date) = 3

(***************************************************************************)
(* C8: calculate_urgency_level is a monotone step function of              *)
(* d = floor(deadline - now) in whole days, negative d included:           *)
(* d <= 1 gives 1, 1 < d <= 3 gives 2, 3 < d <= 7 gives 3, d > 7 gives 4,  *)
(* and a larger d never gives a smaller level.                             *)
(***************************************************************************)
C8_UrgencyCall == call.op = "calculate_urgency_level"

\* the whole days from the base date to the deadline t, rounded down
C8_FloorDays(t) ==
    CHOOSE d \in -(MaxDeadlineDay + 7)..(MaxDeadlineDay + 7) :
        24 * d <= t - base_date /\ t - base_date < 24 * (d + 1)

C8_Step(d) == IF d <= 1 THEN 1 ELSE IF d <= 3 THEN 2 ELSE IF d <= 7 THEN 3 ELSE 4

C8_UrgencyStepMonotone ==
    C8_UrgencyCall =>
        /\ call.result = C8_Step(C8_FloorDays(call.inspection_deadline))
        /\ \A t \in DeadlineInputs :
              C8_FloorDays(t) >= C8_FloorDays(call.inspection_deadline)
                 => CalculateUrgencyLevel(t, base_date) >= call.result

\* one hour short of two days ahead is still level 1; an overdue deadline too
C8_Witness ==
    /\ C8_UrgencyCall
    /\ call.inspection_deadline - base_date = 47
    /\ call.result = 1
    /\ \E t \in DeadlineInputs :
          t < base_date /\ (base_date - t) % 24 # 0 /\ CalculateUrgencyLevel(t, base_date) = 1

(***************************************************************************)
(* C10: for every task with total hours > 0 the required headcount is      *)
(* ceil(total_hours / (days_available * shift average)) clamped to         *)
(* [1, 50], with days_available = max(1, due date - today in whole days).  *)
(***************************************************************************)
C10_RequiredUsesDaysAvailable ==
    pc \in {"plain", "skill"} =>
        \A k \in 1..Len(products) :
            products[k].hours > 0 =>
                products[k].required =
                    Min(50, Max(1, Ceil(products[k].hours,
                                        Max(1, Date(products[k].due.t) - Date(base_date))
                                           * avg_working_hours)))

(***************************************************************************)
(* C9: for every reconciled task produced_quantity is the absolute value   *)
(* of shortage_qty (when no lot total is used) and is never negative; the  *)
(* sign of the shortage never reaches the total inspection time, so a      *)
(* sheet and the sheet with every shortage negated give the same           *)
(* produced quantities and the same totals.                                *)
(***************************************************************************)
\* the sheet with the sign of every shortage flipped
C9_Negated(raw) == [i \in 1..Len(raw) |-> [raw[i] EXCEPT !.shortage = -@]]

\* no two rows of the sheet share a (納期, 品番) key
C9_OneRowPerKey(raw) ==
    \A i, j \in 1..Len(raw) :
        (raw[i].due = raw[j].due /\ raw[i].part = raw[j].part) => i = j

\* the signed shortage the sheet holds for the key of a scheduled row
C9_SheetShortage(raw, row) ==
    LET S == {raw[i].shortage : i \in {j \in 1..Len(raw) :
                 raw[j].due = row.due /\ raw[j].part = row.part}}
    IN  CHOOSE m \in S : \A x \in S : m <= x

C9_Quantities(rows) ==
    [i \in 1..Len(rows) |-> <<rows[i].produced_quantity, rows[i].total>>]

C9_Scheduled == scheduled_products.kind = "df" /\ call.op # "none"

C9_TimeCalculated == call.op = "add_time_calculations"

C9_ProducedQuantityIsAbsolute ==
    /\ C9_Scheduled =>
          /\ \A i \in 1..Len(scheduled_products.rows) :
                LET row == scheduled_products.rows[i]
                IN  /\ row.produced_quantity = Abs(C9_SheetShortage(call.raw, row))
                    /\ row.produced_quantity >= 0
                    /\ row.total = row.produced_quantity * row.inspection_time
                    /\ row.total >= 0
          /\ C9_OneRowPerKey(call.raw) =>
                C9_Quantities(scheduled_products.rows) =
                   C9_Quantities(CalculateBasicSchedule(GetProcessAndInspectionTime(
                       ProcessLotRequirements(C9_Negated(call.raw)), product_master)))
    /\ C9_TimeCalculated =>
          /\ \A i \in 1..Len(call.rows) :
                /\ ~call.has_lot =>
                      call.rows[i].produced_quantity = Abs(call.rows[i].shortage)
                /\ call.rows[i].produced_quantity >= 0
                /\ call.rows[i].total =
                      call.rows[i].produced_quantity * call.rows[i].inspection_time
                /\ call.rows[i].total >= 0
          /\ (~call.has_lot /\ ~call.has_process) =>
                C9_Quantities(call.rows) =
                   C9_Quantities(AddTimeCalculations(C9_Negated(call.raw), FALSE,
                                                     FALSE, product_master))

\* a shortage of -6 became a produced quantity of 6 in the schedule and in
\* the time calculation of the sheet
C9_Witness ==
    /\ C9_Scheduled
    /\ C9_TimeCalculated
    /\ ~call.has_lot
    /\ \E i \in 1..Len(scheduled_products.rows) :
          /\ C9_SheetShortage(call.raw, scheduled_products.rows[i]) = -6
          /\ scheduled_products.rows[i].produced_quantity = 6
          /\ scheduled_products.rows[i].total = 6 * MasterInspectionTime
    /\ \E i \in 1..Len(call.rows) :
          /\ call.rows[i].shortage = -6
          /\ call.rows[i].produced_quantity = 6

(***************************************************************************)
(* C11: every assignment run processes the whole task list: one result row *)
(* per scheduled task, in the assignment-pass order (days until due        *)
(* ascending, then total inspection hours descending); a task that finds   *)
(* no inspector is still recorded with its shortage, the following tasks   *)
(* are still processed, and the run returns the rows of all tasks.         *)
(***************************************************************************)
C11_Key(r) == <<r.part, r.due, r.hours>>

C11_Keys(rows) == {C11_Key(rows[k]) : k \in 1..Len(rows)}

\* whole days from the base date to the due date of the row, 999 without one
C11_DaysUntilDue(r) ==
    IF r.due.kind = "ts" THEN (r.due.t \div 24) - (base_date \div 24) ELSE 999

C11_PassOrder(rows) ==
    \A k \in 1..(Len(rows) - 1) :
        \/ C11_DaysUntilDue(rows[k]) < C11_DaysUntilDue(rows[k + 1])
        \/ /\ C11_DaysUntilDue(rows[k]) = C11_DaysUntilDue(rows[k + 1])
           /\ rows[k].hours >= rows[k + 1].hours

C11_RowPerTask(rows) ==
    /\ Len(rows) = Len(scheduled_products.rows)
    /\ C11_Keys(rows) = C11_Keys(scheduled_products.rows)
    /\ C11_PassOrder(rows)

C11_Recorded ==
    /\ pc \in {"plain", "skill"} =>
          /\ C11_RowPerTask(products)
          /\ Len(results) <= Len(products)
          /\ \A k \in 1..Len(results) :
                /\ C11_Key(results[k]) = C11_Key(products[k])
                /\ results[k].assigned_count = Len(results[k].members)
                /\ results[k].assigned_count = 0 /\ results[k].hours > 0
                      => results[k].shortage > 0
    /\ (pc = "idle" /\ ret.kind = "df" /\ ret.rows # <<>>) => C11_RowPerTask(ret.rows)

C11_Returned ==
    /\ pc = "idle"
    /\ ret.kind = "df"
    /\ Len(ret.rows) = Len(scheduled_products.rows)

\* a step of a run records the next task, or returns once all are recorded
C11_Progress ==
    pc # "idle" =>
        \/ /\ Len(results) < Len(products)
           /\ pc' = pc
           /\ products' = products
           /\ Len(results') = Len(results) + 1
           /\ SubSeq(results', 1, Len(results)) = results
        \/ /\ Len(results) = Len(products)
           /\ pc' = "idle"
           /\ ret' = DF(results)

RECURSIVE C12_RunFrom(_, _, _)
C12_RunFrom(variant, st, tasks) ==
    IF tasks = <<>> THEN <<>>
    ELSE LET step == IF variant = "plain"
                     THEN PlainTask(st, Head(tasks), product_master,
                                    NewProductTeamMembers(inspector_master),
                                    AvgWorkingHours(inspector_master.rows))
                     ELSE SkillTask(st, Head(tasks), skill_master, inspector_master,
                                    AvgWorkingHours(inspector_master.rows))
         IN  <<step.item>> \o C12_RunFrom(variant, step.status, Tail(tasks))

\* the rows of a first run of the variant on the loaded data
C12_FirstRun(variant) ==
    C12_RunFrom(variant,
                [i \in 1..Len(inspector_master.rows) |->
                    [name |-> inspector_master.rows[i].name,
                     available_time |-> AvgWorkingHours(inspector_master.rows)]],
                products)

\* a run that has just started has every budget at the shift average
C12_FreshStart ==
    (pc # "idle" /\ results = <<>>) =>
        /\ Len(inspectors_status) = Len(inspector_master.rows)
        /\ \A i \in 1..Len(inspectors_status) :
              /\ inspectors_status[i].name = inspector_master.rows[i].name
              /\ inspectors_status[i].available_time = avg_working_hours

\* the rows a run returns are those of a first run of its variant
C12_ReturnsFirstRun ==
    (pc # "idle" /\ pc' = "idle") => ret'.rows = C12_FirstRun(pc)

C12_NoCarryOver == []C12_FreshStart /\ [][C12_ReturnsFirstRun]_vars

\* a run starts after a run that had charged inspectors returned its rows
C12_Witness ==
    /\ pc # "idle"
    /\ results = <<>>
    /\ products # <<>>
    /\ ret.kind = "df"
    /\ \E k \in 1..Len(ret.rows) : ret.rows[k].assigned_count > 0
    /\ \A i \in 1..Len(inspectors_status) :
          inspectors_status[i].available_time = avg_working_hours

(***************************************************************************)
(* C13: a part code absent from the process master never aborts the run,   *)
(* even when every shortage part is absent from the master: load_data      *)
(* succeeds and run_full_analysis leaves a schedule with a row for every   *)
(* reconciled shortage row; the run fails only when the shortage dataset   *)
(* or the master dataset itself is absent.                                 *)
(***************************************************************************)
\* both datasets were found by the loader
C13_DatasetsPresent ==
    /\ call.op \in {"load_data", "run_full_analysis"}
    /\ shortage_data.kind = "df"
    /\ product_master.kind = "df"

C13_AbsentPartNeverAborts ==
    C13_DatasetsPresent =>
        /\ call.ok
        /\ (call.op = "run_full_analysis" /\ shortage_data.rows # <<>>) =>
               /\ scheduled_products.kind = "df"
               /\ \A i \in 1..Len(shortage_data.rows) :
                      \E j \in 1..Len(scheduled_products.rows) :
                         /\ scheduled_products.rows[j].part = shortage_data.rows[i].part
                         /\ scheduled_products.rows[j].due = shortage_data.rows[i].due

(***************************************************************************)
(* C14: when a required dataset is missing or empty the operation returns  *)
(* an empty result set and changes nothing: calculate_schedules when the   *)
(* shortage data or the process master is absent, assign_inspectors and    *)
(* assign_inspectors_with_skill when no schedule has been computed or the  *)
(* inspector master (skill variant: or the skill master) is absent or      *)
(* empty.  No inspector budget and no cached schedule is modified.         *)
(***************************************************************************)
\* a dataset calculate_schedules requires is absent
C14_CalculateLacksData ==
    shortage_data.kind = "none" \/ product_master.kind = "none"

\* a dataset assign_inspectors_with_skill requires is absent or empty
C14_AssignLacksData ==
    \/ Missing(scheduled_products)
    \/ Missing(inspector_master)
    \/ Missing(skill_master)

\* the step returned an empty table and changed nothing else
C14_EmptyAndUnchanged ==
    /\ ret' = DF(<<>>)
    /\ UNCHANGED <<data, pc, avg_working_hours, team, inspectors_status,
                   products, results, last, call>>

\* the step is calculate_schedules on the loaded datasets
C14_Calculated ==
    /\ ~C14_CalculateLacksData
    /\ scheduled_products'.kind = "df"
    /\ scheduled_products'.rows # <<>>
    /\ UNCHANGED <<base_date, shortage_data, product_master, inspector_master,
                   skill_master, pc, avg_working_hours, team, inspectors_status,
                   products, results, last, call>>

\* a step of one of the three operations (the loader did not run)
C14_OperationStep ==
    (pc = "idle" /\ pc' = "idle" /\ call' = call) =>
        /\ C14_AssignLacksData
        /\ C14_CalculateLacksData => C14_EmptyAndUnchanged
        /\ C14_EmptyAndUnchanged \/ C14_Calculated

C15_MasterProcessNumbers(part) ==
    {NormalizeProcessNo(product_master.rows[i].process_no) :
        i \in {j \in 1..Len(product_master.rows) :
                  product_master.rows[j].part = part}}

C15_ProcessFieldsDistinct ==
    call.op = "add_time_calculations" =>
        \A i \in 1..Len(call.rows) :
            /\ call.has_process =>
                   \E k \in 1..Len(call.raw) :
                      /\ call.raw[k].part = call.rows[i].part
                      /\ call.raw[k].due = call.rows[i].due
                      /\ call.raw[k].process = call.rows[i].process_no
            /\ Range(call.rows[i].process_list)
                   \subseteq C15_MasterProcessNumbers(call.rows[i].part)

(***************************************************************************)
(* C16: a task whose due date (and hence deadline) is null or unparseable  *)
(* is given urgency level 4 and days_until_deadline 999 without an error,  *)
(* and the remaining tasks of the batch are still computed.                *)
(***************************************************************************)
\* a row without a due date is level 4 / 999, a row with one has a deadline
C16_RowComputed(row) ==
    IF row.due.kind = "nat"
    THEN /\ row.deadline = NaT
         /\ row.level = 4
         /\ row.days = NoDeadlineDays
    ELSE /\ row.deadline.kind = "ts"
         /\ row.deadline.t <= row.due.t
         /\ row.level \in 1..4
         /\ row.days = (row.deadline.t - base_date) \div 24

C16_NullDueDateIsLevelFour ==
    /\ call.op = "add_time_calculations" =>
          /\ \A i \in 1..Len(call.rows) : C16_RowComputed(call.rows[i])
          /\ (~call.has_process /\ ~call.has_lot) =>
                 /\ Len(call.rows) = Len(call.raw)
                 /\ \A i \in 1..Len(call.rows) : call.rows[i].due = call.raw[i].due
    /\ scheduled_products.kind = "df" =>
          \A i \in 1..Len(scheduled_products.rows) :
              C16_RowComputed(scheduled_products.rows[i])

\* a batch whose first task has no due date and whose second task has one
C16_Witness ==
    /\ call.op = "add_time_calculations"
    /\ Len(call.rows) = 2
    /\ call.rows[1].due = NaT
    /\ call.rows[1].level = 4
    /\ call.rows[2].due.kind = "ts"
    /\ call.rows[2].deadline.kind = "ts"

(***************************************************************************)
(* C17: the table returned by calculate_schedules is ordered by            *)
(* (urgency_level ascending, days_until_deadline ascending,                *)
(* total_inspection_hours descending): of two adjacent rows the earlier    *)
(* one is not greater under that lexicographic key.                        *)
(***************************************************************************)
\* row a is not greater than row b under the key
C17_NotGreater(a, b) ==
    \/ a.level < b.level
    \/ a.level = b.level /\ a.days < b.days
    \/ a.level = b.level /\ a.days = b.days /\ a.total >= b.total

\* the rows of the cached schedule that have a deadline
C17_ValidRows(rows) == {rows[i] : i \in {j \in 1..Len(rows) : rows[j].deadline.kind = "ts"}}

\* a step of calculate_schedules that returned rows
C17_CalculateStep ==
    /\ pc = "idle"
    /\ call' = call
    /\ ret'.rows # <<>>

C17_Returned ==
    C17_CalculateStep =>
        /\ \A i \in 1..(Len(ret'.rows) - 1) :
               C17_NotGreater(ret'.rows[i], ret'.rows[i + 1])
        /\ Range(ret'.rows) = C17_ValidRows(scheduled_products'.rows)
        /\ Len(ret'.rows) = Len(Pick(scheduled_products'.rows,
                                     {j \in 1..Len(scheduled_products'.rows) :
                                         scheduled_products'.rows[j].deadline.kind = "ts"}))

C17_ScheduleOrdered == [][C17_Returned]_vars

\* calculate_schedules returned two rows of one level and day in the reverse
\* of their order in the cached schedule
C17_Witness ==
    /\ call.op = "load_data"
    /\ scheduled_products.kind = "df"
    /\ Len(scheduled_products.rows) = 2
    /\ ret.kind = "df"
    /\ Len(ret.rows) = 2
    /\ ret.rows[1] = scheduled_products.rows[2]
    /\ ret.rows[2] = scheduled_products.rows[1]
    /\ ret.rows[1].level = ret.rows[2].level
    /\ ret.rows[1].days = ret.rows[2].days
    /\ ret.rows[1].total > ret.rows[2].total

(***************************************************************************)
(* C18: in assign_inspectors_with_skill the general (fallback) assignment  *)
(* for a task that has skill entries happens only after all skilled        *)
(* workers for the part have been considered and the required headcount is *)
(* still unmet; a member assigned that way is tagged general, a member     *)
(* assigned through the skill table is tagged with the own skill level for *)
(* that part, so no worker with a defined skill for the part ever appears  *)
(* with the general tag.                                                   *)
(***************************************************************************)
\* the inspectors with a skill level 1, 2 or 3 for the part
C18_Skilled(part) == {n \in StatusNames(inspectors_status) : C5_LevelOf(n, part) > 0}

\* the tags of a result row: skill members first, each with the own level,
\* general members last, none of them skilled for the part
C18_Tags(item) ==
    \A k \in 1..Len(item.members) :
        LET m == item.members[k]
        IN  /\ m.tag = "general" => m.name \notin C18_Skilled(item.part)
            /\ m.tag # "general" =>
                   /\ C5_LevelOf(m.name, item.part) > 0
                   /\ m.tag = SkillTag(C5_LevelOf(m.name, item.part))
                   /\ \A j \in 1..(k - 1) : item.members[j].tag # "general"
            /\ \A j \in 1..Len(item.members) :
                   j # k => item.members[j].name # m.name

\* the last task took a general member although the part has skilled workers
C18_FallbackStep ==
    /\ C5_SkillStep
    /\ C18_Skilled(LastRow.part) # {}
    /\ \E k \in 1..Len(LastItem.members) : LastItem.members[k].tag = "general"

C18_GeneralOnlyAfterSkilled ==
    /\ pc = "skill" => \A k \in 1..Len(results) : C18_Tags(results[k])
    /\ C18_FallbackStep =>
          /\ \A n \in C18_Skilled(LastRow.part) :
                 \/ n \in MemberNames(LastItem)
                 \/ TimeOf(last, n) < C4_Need
          /\ Cardinality(C18_Skilled(LastRow.part) \cap MemberNames(LastItem))
                 < LastRow.required

\* a skilled member followed by a general member, and a skilled worker
\* without the hours left out
C18_Witness ==
    /\ C18_FallbackStep
    /\ LastItem.members[1].tag # "general"
    /\ \E n \in C18_Skilled(LastRow.part) :
          /\ n \notin MemberNames(LastItem)
          /\ TimeOf(last, n) < C4_Need

(***************************************************************************)
(* C19: for a multi-person task (required > 1) of a registered part in     *)
(* assign_inspectors the assigned members are the first                    *)
(* min(effective_required, number of eligible) inspectors in descending    *)
(* remaining-hours order among those with remaining hours >= one full      *)
(* shift; each assigned member is charged exactly one full shift (the      *)
(* average shift length) whatever total_hours is, and inspectors not       *)
(* assigned are unchanged.                                                 *)
(***************************************************************************)
C19_MultiStep ==
    /\ pc = "plain"
    /\ Len(results) >= 1
    /\ LastRow.required > 1
    /\ LastRow.hours > 0
    /\ LastRow.part \in MasterPartCodes

\* the inspectors with a full shift left before the task
C19_Eligible == {n \in StatusNames(last) : TimeOf(last, n) >= avg_working_hours}

C19_EffectiveRequired ==
    Min(LastRow.required, Max(1, Ceil(LastRow.hours, avg_working_hours)))

C19_MultiPersonFullShift ==
    C19_MultiStep =>
        /\ LastItem.assigned_count = Min(C19_EffectiveRequired, Cardinality(C19_Eligible))
        /\ Len(LastItem.members) = LastItem.assigned_count
        /\ Cardinality(MemberNames(LastItem)) = LastItem.assigned_count
        /\ MemberNames(LastItem) \subseteq C19_Eligible
        /\ \A m \in MemberNames(LastItem) :
               \A n \in C19_Eligible \ MemberNames(LastItem) :
                  TimeOf(last, m) >= TimeOf(last, n)
        /\ \A k \in 1..(Len(LastItem.members) - 1) :
               TimeOf(last, LastItem.members[k].name)
                  >= TimeOf(last, LastItem.members[k + 1].name)
        /\ \A m \in MemberNames(LastItem) :
               TimeOf(inspectors_status, m) = TimeOf(last, m) - avg_working_hours
        /\ \A n \in StatusNames(last) \ MemberNames(LastItem) :
               TimeOf(inspectors_status, n) = TimeOf(last, n)

\* a later task of the run: members charged a shift each for a task of other
\* hours while an inspector without a full shift is passed over
C19_Witness ==
    /\ C19_MultiStep
    /\ Len(results) >= 2
    /\ LastItem.assigned_count >= 1
    /\ LastRow.hours # LastItem.assigned_count * avg_working_hours
    /\ \E n \in StatusNames(last) \ C19_Eligible : TRUE

(***************************************************************************)
(* C20: a task with total_inspection_hours <= 0 is skipped in both         *)
(* variants: it gets assigned_headcount 0 and an empty member list, and no *)
(* inspector's remaining hours change during that task step.               *)
(***************************************************************************)
C20_ZeroStep == Stepped /\ LastRow.hours <= 0

C20_ZeroHoursSkipped ==
    C20_ZeroStep =>
        /\ LastItem.assigned_count = 0
        /\ LastItem.members = <<>>
        /\ LastItem.hours = LastRow.hours
        /\ inspectors_status = last

\* a task without hours met after an earlier task of the run used up hours
\* of one inspector and left another inspector with free hours
C20_Witness ==
    /\ C20_ZeroStep
    /\ Len(results) >= 2
    /\ \E n \in StatusNames(last) : TimeOf(last, n) < avg_working_hours
    /\ \E n \in StatusNames(last) : TimeOf(last, n) > 0

(***************************************************************************)
(* C21: assignments are committed and never rolled back: within one run    *)
(* each inspector's remaining hours are non-increasing from task to task,  *)
(* and the members and headcount recorded for a task are never changed by  *)
(* the processing of a later task.                                         *)
(***************************************************************************)
\* a step inside a run: a task of the loop or the return of the rows
C21_RunStep == pc \in {"plain", "skill"}

C21_Committed ==
    C21_RunStep =>
        /\ StatusNames(inspectors_status') = StatusNames(inspectors_status)
        /\ \A n \in StatusNames(inspectors_status) :
               TimeOf(inspectors_status', n) <= TimeOf(inspectors_status, n)
        /\ Len(results') >= Len(results)
        /\ SubSeq(results', 1, Len(results)) = results
        /\ pc' = "idle" => ret'.rows = results

C21_NeverRolledBack == [][C21_Committed]_vars

\* a third task has charged an inspector after two tasks with members
C21_Witness ==
    /\ Stepped
    /\ Len(results) = 3
    /\ results[1].members # <<>>
    /\ results[2].members # <<>>
    /\ \E n \in StatusNames(last) :
          TimeOf(inspectors_status, n) < TimeOf(last, n)

(***************************************************************************)
(* C22: when the join on (part code, current process number) finds no      *)
(* master inspection time, the time is filled in this order: (a) the       *)
(* part's average over master rows with a blank process number, else (b)   *)
(* the part's master row with process number 0, else (c) the hard default  *)
(* of 2.0 hours; the default is applied to exactly the tasks for which the *)
(* join, (a) and (b) all fail, and no reconciled task is left without an   *)
(* inspection time.                                                        *)
(***************************************************************************)
\* the master rows of a part with the given process number
C22_MasterRows(part, process) ==
    Pick(product_master.rows,
         {i \in 1..Len(product_master.rows) :
             /\ product_master.rows[i].part = part
             /\ product_master.rows[i].process_no = process})

\* the time the fallback order gives a task of the part at the process
C22_Expected(part, process) ==
    IF process # "" /\ C22_MasterRows(part, process) # <<>>
    THEN MeanTime(C22_MasterRows(part, process))
    ELSE IF C22_MasterRows(part, "") # <<>>
    THEN MeanTime(C22_MasterRows(part, ""))
    ELSE IF C22_MasterRows(part, "0") # <<>>
    THEN C22_MasterRows(part, "0")[1].inspection_time
    ELSE FillInspectionTime

C22_FallbackOrder ==
    /\ call.op = "add_time_calculations" =>
          \A i \in 1..Len(call.rows) :
              /\ call.rows[i].inspection_time # NaN
              /\ call.rows[i].inspection_time =
                     C22_Expected(call.rows[i].part,
                                  IF call.has_process
                                  THEN call.rows[i].process_no ELSE "")
    /\ scheduled_products.kind = "df" =>
          \A i \in 1..Len(scheduled_products.rows) :
              /\ scheduled_products.rows[i].inspection_time # NaN
              /\ scheduled_products.rows[i].inspection_time =
                     C22_Expected(scheduled_products.rows[i].part,
                                  scheduled_products.rows[i].process_no)

(***************************************************************************)
(* C23: after reconciliation at most one row survives per (part code, due  *)
(* date, process number), and when several input rows share that key the   *)
(* surviving row is the one with the largest absolute shortage quantity.   *)
(***************************************************************************)
\* the largest absolute shortage among the input rows of a key
C23_LargestAbs(S) == CHOOSE m \in S : \A x \in S : x <= m

\* the absolute shortages of the sheet rows of a (due date, part) group
C23_SheetGroup(row) ==
    {Abs(call.raw[k].shortage) :
        k \in {j \in 1..Len(call.raw) :
                  call.raw[j].due = row.due /\ call.raw[j].part = row.part}}

\* the rows add_time_calculations was given
C23_Input == IF call.has_lot THEN shortage_data.rows ELSE call.raw

\* the absolute shortages of the input rows with the key of a result row
C23_InputGroup(row) ==
    {Abs(C23_Input[k].shortage) :
        k \in {j \in 1..Len(C23_Input) :
                  /\ C23_Input[j].due = row.due
                  /\ C23_Input[j].part = row.part
                  /\ call.has_process => C23_Input[j].process = row.process_no}}

C23_OneRowPerKeyLargestShortage ==
    /\ (call.op # "none" /\ shortage_data.kind = "df") =>
          /\ \A i, j \in 1..Len(shortage_data.rows) :
                 (/\ shortage_data.rows[i].part = shortage_data.rows[j].part
                  /\ shortage_data.rows[i].due = shortage_data.rows[j].due) => i = j
          /\ \A i \in 1..Len(shortage_data.rows) :
                 Abs(shortage_data.rows[i].shortage) =
                    C23_LargestAbs(C23_SheetGroup(shortage_data.rows[i]))
    /\ call.op = "add_time_calculations" =>
          /\ \A i, j \in 1..Len(call.rows) :
                 (/\ call.rows[i].part = call.rows[j].part
                  /\ call.rows[i].due = call.rows[j].due
                  /\ call.rows[i].process_no = call.rows[j].process_no) => i = j
          /\ \A i \in 1..Len(call.rows) :
                 Abs(call.rows[i].shortage) =
                    C23_LargestAbs(C23_InputGroup(call.rows[i]))

(***************************************************************************)
(* C24: with no forced unit the auto-detection can classify a master       *)
(* sample as already being in hours: there are samples not taken by the    *)
(* excel-day-fraction rule or the minutes rule that reach the rule         *)
(* "95th percentile <= 1.0 and median <= 0.5" and are returned unchanged.  *)
(***************************************************************************)
\* the sample satisfies the condition of the hours rule
C24_HoursLike(sample) ==
    LET sp == PositiveSorted(sample)
    IN  /\ sp # <<>>
        /\ Quantile95x20(sp) <= 20 * HoursQ95
        /\ Median2(sp) <= 2 * HoursMedian

\* before the master is loaded there is a sheet the load would leave unchanged
C24_HoursRuleReachable ==
    call = NoCall =>
        \E sample \in Samples :
            /\ C24_HoursLike(sample)
            /\ DetectUnit(sample, "none") = "hours"
            /\ NormalizeTimes(sample, "none") =
                  [i \in 1..Len(sample) |-> sample[i] * HoursFactor]

(***************************************************************************)
(* C25: with an unrecognized forced-unit value the unit chosen and the     *)
(* conversion applied to every inspection time are the same as those       *)
(* chosen by the auto rules when no forced unit is given, for every sample *)
(* (same thresholds on maximum, 95th percentile and median, same rule      *)
(* order).                                                                 *)
(***************************************************************************)
C25_UnrecognizedUnitIsAuto ==
    (call.op = "load_product_master" /\ call.forced_unit = "bogus") =>
        /\ Factor(call.unit) = Factor(AutoUnit(call.sample))
        /\ call.times = NormalizeTimes(call.sample, "none")

(***************************************************************************)
(* C26: generate_priority_list returns the scheduled tasks in priority     *)
(* order (urgency_level ascending, days_until_deadline ascending,          *)
(* total_inspection_hours descending), so that                             *)
(* generate_priority_list(limit = n) returns the n highest-priority tasks. *)
(***************************************************************************)
C26_PriorityOrder ==
    call.op = "generate_priority_list" =>
        /\ \A i \in 1..(Len(call.rows) - 1) :
               C17_NotGreater(call.rows[i], call.rows[i + 1])
        /\ \A i \in 1..Len(call.rows) :
               \A j \in 1..Len(scheduled_products.rows) :
                  \/ PriorityColumns(scheduled_products.rows[j]) \in Range(call.rows)
                  \/ C17_NotGreater(call.rows[i], scheduled_products.rows[j])

(***************************************************************************)
(* C27: the volume cap never changes the headcount: for every task of a    *)
(* run, min(required_headcount, max(1, ceil(total_hours / shift average))) *)
(* equals the required_headcount computed by calculate_required_people,    *)
(* which lies in 1..50.                                                    *)
(***************************************************************************)
C27_VolumeCapIsIdle ==
    C21_RunStep =>
        \A i \in 1..Len(products) :
            /\ products[i].required \in 1..MaxRequiredPeople
            /\ products[i].required
                  = CalculateRequiredPeople(products[i].hours, products[i].due,
                                            Date(base_date), avg_working_hours)
            /\ Min(products[i].required,
                   RequiredByVolume(products[i].hours, avg_working_hours))
                  = products[i].required

\* a multi-person task has been processed whose headcount the limit of 50
\* holds strictly below the volume bound
C27_Witness ==
    /\ C19_MultiStep
    /\ LastRow.required = MaxRequiredPeople
    /\ RequiredByVolume(LastRow.hours, avg_working_hours) > MaxRequiredPeople
    /\ LastItem.assigned_count >= 1

(***************************************************************************)
(* C28: in both variants, an inspector assigned to a multi-person task had *)
(* received no earlier positive-hours assignment in the run and has        *)
(* remaining hours 0 afterwards; hence every inspector is a member of at   *)
(* most one multi-person task per run and is assigned to no task processed *)
(* after it.                                                               *)
(***************************************************************************)
\* result row i is a multi-person task that received members
C28_Multi(i) ==
    /\ results[i].required > 1
    /\ results[i].hours > 0
    /\ results[i].members # <<>>

C28_MultiPersonMembersExclusive ==
    C21_RunStep =>
        /\ \A i \in 1..Len(results) :
              C28_Multi(i) =>
                 /\ \A m \in MemberNames(results[i]) :
                        TimeOf(inspectors_status, m) = 0
                 /\ \A j \in 1..Len(results) :
                        j # i => MemberNames(results[i]) \cap MemberNames(results[j]) = {}
        /\ (Len(results) >= 1 /\ C28_Multi(Len(results))) =>
              \A m \in MemberNames(LastItem) : TimeOf(last, m) = avg_working_hours

\* a skill run in which a multi-person task got members between two tasks
\* that got other members
C28_Witness ==
    /\ pc = "skill"
    /\ Len(results) >= 3
    /\ \E i \in 2..(Len(results) - 1) :
          /\ C28_Multi(i)
          /\ \E h \in 1..(i - 1) : results[h].members # <<>>
          /\ \E j \in (i + 1)..Len(results) : results[j].members # <<>>

(***************************************************************************)
(* C29: the assignment runs only ever use the schedule computed from the   *)
(* currently loaded data: when the most recent calculate_schedules call    *)
(* returned an empty result because data is missing or empty, a following  *)
(* assign_inspectors returns an empty result and starts no run over tasks  *)
(* left over from an earlier load.                                         *)
(***************************************************************************)
\* the loaded data has nothing to schedule
C29_DataMissingOrEmpty ==
    \/ shortage_data.kind = "none"
    \/ product_master.kind = "none"
    \/ shortage_data.rows = <<>>

\* ret is still the empty table calculate_schedules returned while an
\* assignment run is under way: it can only be a run over leftover tasks
C29_NoRunOnLeftoverSchedule ==
    (C29_DataMissingOrEmpty /\ ret = DF(<<>>)) => pc = "idle"

(***************************************************************************)
(* C30: in both variants no inspector is assigned twice to the same task:  *)
(* each inspector appears at most once among a task's assigned members,    *)
(* also across the skill phase and the general fallback of                 *)
(* assign_inspectors_with_skill, so assigned_headcount counts distinct     *)
(* inspectors and never exceeds required_headcount.                        *)
(***************************************************************************)
C30_DistinctMembers(item) ==
    /\ \A j, k \in 1..Len(item.members) :
           j # k => item.members[j].name # item.members[k].name
    /\ item.assigned_count = Cardinality(MemberNames(item))
    /\ item.assigned_count <= item.required

C30_NoInspectorTwiceOnATask ==
    C21_RunStep => \A i \in 1..Len(results) : C30_DistinctMembers(results[i])

\* a task of the skill variant filled to its headcount of two or more by a
\* skilled member and a general member
C30_Witness ==
    /\ pc = "skill"
    /\ Len(results) >= 1
    /\ LastItem.required >= 2
    /\ LastItem.assigned_count = LastItem.required
    /\ \E j, k \in 1..Len(LastItem.members) :
          /\ LastItem.members[j].tag # "general"
          /\ LastItem.members[k].tag = "general"
====
